---- MODULE Spec2Model ----
(***************************************************************************)
(* TradingView alerts -> exchange position reconciliation and stop-loss    *)
(* monitoring.  The request path (StrategyManager.process_webhook_message  *)
(* and the strategy's process_signal) runs on the server's event loop, one *)
(* webhook at a time; PositionMonitor._monitoring_thread and the reader    *)
(* thread of BinanceWebSocketManager run concurrently with it.             *)
(***************************************************************************)
EXTENDS Integers, Sequences, FiniteSets, TLC

VARIABLES
    strategy,            \* class of StrategyManager.active_strategy
    trading_enabled,     \* config trading.enabled (read by SimpleStrategy)
    last_action,         \* PivotReversalFilter.last_action / SimpleStrategy.last_action
    pc,                  \* position of the request path
    signal,              \* action of the TradingSignal being processed
    nsignals,            \* webhook messages handled so far
    current_position,    \* local current_position of process_signal
    calls,               \* exchange / monitor calls issued by process_signal for this signal
    result,              \* status of the last process_webhook_message
    ex_position,         \* exchange: side of the open position
    ex_orders,           \* exchange: ids of the resting stop orders
    next_order_id,       \* exchange: next order id
    is_monitoring,       \* PositionMonitor.is_monitoring
    symbol,              \* PositionMonitor.symbol
    position_data,       \* PositionMonitor.position_data: side, entry_price, size (or None)
    stop_loss_order_id,  \* PositionMonitor.stop_loss_order_id (0 is None)
    ws_running,          \* BinanceWebSocketManager._is_running
    ws_loop,             \* the reader whose event loop and socket _loop / _websocket hold (0 is None)
    fetch_failed,        \* monitor threads whose _fetch_position_data returned False
    last_update,         \* BinanceWebSocketManager.last_update is set (not None)
    mon,                 \* position of each PositionMonitor._monitoring_thread
    nmon,                \* monitor threads started so far
    rdr,                 \* position of each websocket reader thread
    rdr_order,           \* order id a reader's futures_create_order returned, not yet recorded
    nticks,              \* price messages delivered so far
    session_submits,     \* STOP_MARKET submissions since the last start_monitoring
    held_ticks,          \* ticks at or above the threshold handled while a stop id was recorded
    sig_monitoring,      \* is_monitoring when process_signal began
    sig_stop_id,         \* stop_loss_order_id when process_signal began
    prev_result,         \* status of the process_webhook_message before the last one
    filter_signals,      \* the signals given to should_process so far, in order
    filter_accepted,     \* what should_process returned for each of them
    retry_max,           \* retry_on_api_error: max_retries of the wrapper
    retry_delay,         \* retry_on_api_error: delay of the wrapper
    retry_pc,            \* position of wrapper(): call, sleep, next, returned, raised
    retry_attempt,       \* the loop variable attempt
    last_exception,      \* the local last_exception
    retry_invocations,   \* what each invocation of func did, in order
    retry_sleeps,        \* the argument of each time.sleep, in order
    retry_outcome,       \* what left the wrapper: the value returned or the exception raised
    tick_price,          \* _on_price_update: current_price of the last update (0: none yet)
    tick_had_id,         \* whether stop_loss_order_id was recorded when that update arrived
    tick_pnl,            \* pnl_usdt computed for that update
    tick_order,          \* the arguments of futures_create_order of that update, if it was called
    active_strategy_name, \* the name of the enabled strategy
    parsed_message,      \* the last message given to a parser, as its tokens
    parse_path,          \* who parsed it: StrategyManager or StrategyParser (or None)
    parse_detailed,      \* whether the detailed pattern was applied to it
    parse_result,        \* the TradingSignal routing returned for it, if any
    conn_pc,             \* _websocket_loop: connect, listen, sleep, ended (None: no loop)
    reconnect_attempts,  \* BinanceWebSocketManager._reconnect_attempts
    connects_since_tick, \* calls of websockets.connect since the last price was stored
    dropped,             \* the connection was lost since the last call of websockets.connect
    waited,              \* seconds slept since the connection was lost
    reconnected_undelayed, \* some connect after a lost connection came without a sleep
    health_monitoring,   \* HealthMonitor.is_monitoring
    health_thread,       \* position of each _monitoring_loop thread: test, sleep, ended
    health_starts,       \* threads started by HealthMonitor.start_monitoring so far
    self_tested,         \* HealthMonitor.last_self_test is set
    self_test_failures,  \* HealthMonitor.self_test_failures
    consecutive_failures, \* HealthMonitor.consecutive_failures
    health_uptime,       \* seconds since start_time at the last health check
    health_check_count,  \* HealthMonitor.health_check_count
    health_tick,         \* what the last _perform_health_check read and decided
    restart_calls,       \* calls of restart_callback so far
    restart_requested,   \* RestartManager.restart_requested
    request_pc,          \* position of each caller in request_restart: idle, set
    requests_made,       \* calls of request_restart so far
    requests_ignored,    \* calls that returned at 'Перезапуск уже запрошен'
    restart_thread,      \* position of each RestartThread: sleep, execv, exit
    restart_threads,     \* RestartThreads started so far
    execv_calls,         \* calls of os.execv so far
    process,             \* the process: running, reexecuted, exited
    nested_op,           \* the wrapped client method under way: close_position, _open_position
    nested_pc,           \* position in it and in the wrapped query it is calling
    outer_attempt,       \* the loop variable attempt of the method's wrapper
    inner_attempt,       \* the loop variable attempt of the query's wrapper
    inner_index,         \* which of the method's wrapped queries is being called
    remote_calls,        \* remote invocations of each wrapped query so far
    remote_raises,       \* how many of them raised
    order_raises,        \* futures_create_order calls that raised
    nested_sleeps,       \* calls of time.sleep(delay) by either wrapper
    reloads,             \* calls of StrategyManager.reload_config so far
    reload_result,       \* how the last one ended: success, raised (None: none yet)
    reload_monitoring,   \* is_monitoring of the strategy's monitor when it began
    reload_stop_id,      \* stop_loss_order_id of that monitor when it began
    reload_at,           \* webhook messages handled when the new strategy was constructed (-1: never)
    old_mon,             \* monitor threads of a replaced strategy: their position
    old_rdr,             \* reader threads of a replaced strategy: their position
    old_gen,             \* the reload that replaced the strategy a thread belongs to (0: none)
    old_ws_running,      \* _is_running of each replaced strategy's stream
    old_symbol,          \* whether symbol of each replaced strategy's monitor is set
    norm_pc,             \* normalize_symbol under test: call, again, done (idle: none)
    norm_symbol,         \* its argument, as a sequence of characters
    norm_result,         \* what it returned
    norm_twice           \* what it returned for that result

vars == <<strategy, trading_enabled, last_action, pc, signal, nsignals,
          current_position, calls, result, ex_position, ex_orders, next_order_id,
          is_monitoring, symbol, position_data, stop_loss_order_id, ws_running,
          ws_loop, fetch_failed, last_update, mon, nmon, rdr, rdr_order, nticks,
          session_submits, held_ticks,
          sig_monitoring, sig_stop_id, prev_result,
          filter_signals, filter_accepted,
          retry_max, retry_delay, retry_pc, retry_attempt, last_exception,
          retry_invocations, retry_sleeps, retry_outcome,
          tick_price, tick_had_id, tick_pnl, tick_order,
          active_strategy_name, parsed_message, parse_path, parse_detailed, parse_result,
          conn_pc, reconnect_attempts, connects_since_tick, dropped, waited,
          reconnected_undelayed,
          health_monitoring, health_thread, health_starts, self_tested,
          self_test_failures, consecutive_failures, health_uptime, health_check_count,
          health_tick, restart_calls,
          restart_requested, request_pc, requests_made, requests_ignored,
          restart_thread, restart_threads, execv_calls, process,
          nested_op, nested_pc, outer_attempt, inner_attempt, inner_index,
          remote_calls, remote_raises, order_raises, nested_sleeps,
          reloads, reload_result, reload_monitoring, reload_stop_id, reload_at,
          old_mon, old_rdr, old_gen, old_ws_running, old_symbol,
          norm_pc, norm_symbol, norm_result, norm_twice>>

\* ------------------------------------------------------------------ bounds
MaxSignals == 2
MaxTicks == 2
MaxFilterSignals == 3
MaxRetries == 3
MaxPad == 1
\* calls of websockets.connect followed between two stored prices
MaxConnects == 13
\* health checks performed, and threads started by HealthMonitor.start_monitoring
MaxHealthChecks == 4
MaxHealthStarts == 2
\* calls of request_restart, and the threads that make them
MaxRequests == 4
MaxCallers == 2
\* calls of StrategyManager.reload_config
MaxReloads == 1
\* characters of a symbol given to normalize_symbol
MaxSymbolLen == 5

\* --------------------------------------------------------------- constants
position_size == 100
leverage == 10
pnl_threshold_percent == 5
\* stop_loss_percent (1.2) in tenths of a percent
stop_loss_percent_x10 == 12
price_difference_usdt == 1
EntryPrice == 2000
PositionQty == 1

Strategies == {"PivotReversalStrategy", "SimpleStrategy", "PivotReversalSLStrategy"}
Actions == {"buy", "sell"}
Sides == {"Buy", "Sell"}
Balances == {50, 100, 150}
Prices == {1990, 2000, 2010}
Threads == 1..MaxSignals
HealthThreads == 1..MaxHealthStarts
RestartCallers == 1..MaxCallers
RestartThreads == 1..MaxRequests
Reloads == 1..MaxReloads
\* the retry-wrapped queries of BinanceClient
Queries == {"get_current_position", "get_current_price", "get_account_balance"}
Symbols == {"ETHUSDT", "BTCUSDT"}
Timeframes == {"1", "15"}
\* models.signal.TradingSignal as the filter receives it
TradingSignals == [action : Actions, symbol : Symbols, timeframe : Timeframes]
\* classes of the exceptions a wrapped exchange call raises
ExceptionKinds == {"BinanceAPIException", "ConnectionError", "KeyError"}
\* values a wrapped exchange call returns
ReturnValues == {"True", "False"}
\* delay arguments of retry_on_api_error
Delays == {1, 10}
\* entry prices and sizes of fetched positions, and the distance of a price
\* update from the entry price
EntryPrices == {1000, 2000, 2001}
PositionSizes == {1, 2}
PriceMoves == {-11, -10, -9, -5, 0, 5, 9, 10, 11}
PositionDatas == [side : Sides, entry_price : EntryPrices, size : PositionSizes]

\* A message is the sequence of its tokens: a strategy name, ":", a blank, or a
\* word.  The names stand for "Стратегия контрольной точки разворота SL (2, 1)",
\* the same with (78, 46), "Стратегия контрольной точки разворота (2, 1)" and
\* "MACD (12, 26, 9)".
SL_2_1 == "PivotReversalSL (2, 1)"
SL_78_46 == "PivotReversalSL (78, 46)"
PR_2_1 == "PivotReversal (2, 1)"
MACD == "MACD (12, 26, 9)"
StrategyNames == {SL_2_1, SL_78_46, PR_2_1, MACD}
SLStrategyNames == {SL_2_1, SL_78_46}
AlphaWords == {"ETHUSDT", "ethusdt", "buy", "sell", "BUY", "hold"}
Words == AlphaWords \cup {"1", "15"}
ActionWords == {"buy", "sell", "BUY"}
Pads == {[i \in 1..n |-> " "] : n \in 0..MaxPad}
Bodies == {
    <<":", " ", "ETHUSDT", " ", "1", " ", "buy">>,
    <<":", "ethusdt", " ", "15", " ", "sell">>,
    <<":", " ", "ETHUSDT", " ", "1", " ", "BUY">>,
    <<":", " ", "ETHUSDT", " ", "1", " ", "hold">>,
    <<":", " ", "ETHUSDT", " ", "1">>,
    <<":", " ", "hold", ":", " ", "ETHUSDT", " ", "1", " ", "sell">>,
    <<" ", "ETHUSDT", " ", "1", " ", "buy">> }
Messages ==
    {<<>>} \cup { lead \o <<n>> \o gap \o body \o trail :
                    lead \in Pads, n \in StrategyNames, gap \in Pads,
                    body \in Bodies, trail \in Pads }

None == "none"

\* The messages of the whole request path: the empty one, a buy of a strategy
\* that is not supported, a buy of the SL strategy with other parameters and,
\* under the names of the two strategies StrategyManager can hold, a buy, a
\* sell, a sell for a symbol with the suffix ".P" and a body without a known
\* action; under the name of the strategy without SL also a buy for a symbol
\* with a dot inside.
PR_1_1 == "PivotReversal (1, 1)"
PRStrategyNames == {PR_1_1, PR_2_1}
SuffixedWords == {"ETHUSDC.P"}
DottedWords == SuffixedWords \cup {"ETH.USDT"}
WebhookNames == {SL_2_1, PR_1_1}
BuyBody == <<":", " ", "ETHUSDT", " ", "1", " ", "buy">>
WebhookBodies == {
    BuyBody,
    <<":", " ", "ETHUSDT", " ", "1", " ", "sell">>,
    <<":", " ", "ETHUSDC.P", " ", "15", " ", "sell">>,
    <<":", " ", "ETHUSDT", " ", "1", " ", "hold">> }
WebhookMessages ==
    {<<>>, <<MACD>> \o BuyBody, <<SL_78_46>> \o BuyBody,
     <<PR_1_1, ":", " ", "ETH.USDT", " ", "1", " ", "buy">>}
    \cup { <<n>> \o body : n \in WebhookNames, body \in WebhookBodies }
\* position_data = None
NoPositionData == [side |-> None, entry_price |-> 0, size |-> 0]

\* ------------------------------------------------------------ pure helpers
\* str.strip()
strip(message) ==
    LET n == Len(message)
        lead == CHOOSE k \in 0..n :
                    /\ \A i \in 1..k : message[i] = " "
                    /\ k = n \/ message[k + 1] # " "
        rest == SubSeq(message, lead + 1, n)
        m == Len(rest)
        keep == CHOOSE k \in 0..m :
                    /\ \A i \in (k + 1)..m : rest[i] = " "
                    /\ k = 0 \/ rest[k] # " "
    IN  SubSeq(rest, 1, keep)

\* str.find(':'), counted from 1; 0 when there is none
find_colon(message) ==
    IF \E i \in 1..Len(message) : message[i] = ":"
    THEN CHOOSE i \in 1..Len(message) :
             message[i] = ":" /\ \A j \in 1..(i - 1) : message[j] # ":"
    ELSE 0

\* str.upper() and str.lower() on the words of the messages
upper(word) == IF word = "ethusdt" THEN "ETHUSDT" ELSE word
lower(word) == IF word = "BUY" THEN "buy" ELSE word

\* StrategyParser._is_message_from_active_strategy
_is_message_from_active_strategy(message, active) ==
    /\ message # <<>>
    /\ LET text == strip(message)
           colon_pos == find_colon(text)
       IN  /\ colon_pos # 0
           /\ strip(SubSeq(text, 1, colon_pos - 1)) = <<active>>

\* PivotReversalSLParser.can_parse: re.match(STRATEGY_PATTERN, message.strip())
can_parse(message) ==
    /\ message # <<>>
    /\ LET text == strip(message)
       IN  /\ Len(text) >= 2
           /\ text[1] \in SLStrategyNames
           /\ text[2] = ":"

\* what follows the colon at `colon` matches \s*([A-Z]+[A-Z0-9]*)\s+(\w+)\s+(buy|sell)$
\* under re.IGNORECASE; the three groups are at positions a, b and Len(text)
TailGroups(text, colon) ==
    { <<a, b>> \in (1..Len(text)) \X (1..Len(text)) :
        /\ colon < a /\ a + 1 < b /\ b + 1 < Len(text)
        /\ \A i \in (colon + 1)..(a - 1) : text[i] = " "
        /\ text[a] \in AlphaWords
        /\ \A i \in (a + 1)..(b - 1) : text[i] = " "
        /\ text[b] \in Words
        /\ \A i \in (b + 1)..(Len(text) - 1) : text[i] = " "
        /\ text[Len(text)] \in ActionWords }
\* the colon that ends the lazy first group (.+?) of the pattern; 0: no match
MatchColon(text) ==
    LET ends == { c \in 2..Len(text) : text[c] = ":" /\ TailGroups(text, c) # {} }
    IN  IF ends = {} THEN 0
        ELSE CHOOSE c \in ends : \A d \in ends : c <= d
\* the TradingSignal built from the match of the detailed pattern, if any
MatchSignal(text) ==
    LET colon == MatchColon(text)
    IN  IF colon = 0 THEN <<>>
        ELSE LET g == CHOOSE g \in TailGroups(text, colon) : TRUE
             IN  << [strategy_name |-> strip(SubSeq(text, 1, colon - 1)),
                     symbol |-> upper(text[g[1]]),
                     timeframe |-> text[g[2]],
                     action |-> lower(text[Len(text)])] >>

\* PivotReversalSLParser.parse
SLParser_parse(message) ==
    IF ~can_parse(message) THEN <<>> ELSE MatchSignal(strip(message))

\* StrategyManager.process_webhook_message up to the check of the name
ManagerRoute(message, active) ==
    LET parsed == SLParser_parse(message)
    IN  IF parsed = <<>> THEN <<>>
        ELSE IF parsed[1].strategy_name # <<active>> THEN <<>>
        ELSE parsed

\* PivotReversalParser.can_parse
PR_can_parse(message) ==
    /\ message # <<>>
    /\ LET text == strip(message)
       IN  /\ Len(text) >= 2
           /\ text[1] \in PRStrategyNames
           /\ text[2] = ":"

\* The pattern of PivotReversalParser, whose second group is
\* ([A-Z]+[A-Z0-9.]*): a word that starts with a letter and may hold dots.
PR_TailGroups(text, colon) ==
    { <<a, b>> \in (1..Len(text)) \X (1..Len(text)) :
        /\ colon < a /\ a + 1 < b /\ b + 1 < Len(text)
        /\ \A i \in (colon + 1)..(a - 1) : text[i] = " "
        /\ text[a] \in AlphaWords \cup DottedWords
        /\ \A i \in (a + 1)..(b - 1) : text[i] = " "
        /\ text[b] \in Words
        /\ \A i \in (b + 1)..(Len(text) - 1) : text[i] = " "
        /\ text[Len(text)] \in ActionWords }
PR_MatchColon(text) ==
    LET ends == { c \in 2..Len(text) : text[c] = ":" /\ PR_TailGroups(text, c) # {} }
    IN  IF ends = {} THEN 0
        ELSE CHOOSE c \in ends : \A d \in ends : c <= d
PR_MatchSignal(text) ==
    LET colon == PR_MatchColon(text)
    IN  IF colon = 0 THEN <<>>
        ELSE LET g == CHOOSE g \in PR_TailGroups(text, colon) : TRUE
             IN  << [strategy_name |-> strip(SubSeq(text, 1, colon - 1)),
                     symbol |-> upper(text[g[1]]),
                     timeframe |-> text[g[2]],
                     action |-> lower(text[Len(text)])] >>

\* PivotReversalParser.parse
PRParser_parse(message) ==
    IF ~PR_can_parse(message) THEN <<>> ELSE PR_MatchSignal(strip(message))

\* SignalParser.parse: TradingSignal(action=action) lacks three of the four
\* fields of the dataclass, the TypeError is caught and None returned; a
\* message without buy or sell and the empty message give None as well.
SignalParser_parse(message) == <<>>

\* BaseStrategy.name of the strategy StrategyManager holds
ActiveName(strat) ==
    IF strat = "PivotReversalSLStrategy" THEN SL_2_1
    ELSE IF strat = "PivotReversalStrategy" THEN PR_1_1
    ELSE "SimpleStrategy"

\* active_strategy.parse_message(message)
parse_message(strat, message) ==
    IF strat = "PivotReversalSLStrategy" THEN SLParser_parse(message)
    ELSE IF strat = "PivotReversalStrategy" THEN PRParser_parse(message)
    ELSE SignalParser_parse(message)

\* StrategyManager.process_webhook_message up to the filter: the signal that
\* reaches should_process_signal, if any
Route_unchecked(strat, message, active) == parse_message(strat, message)
Route(strat, message, active) ==
    LET parsed == parse_message(strat, message)
    IN  IF parsed = <<>> THEN <<>>
        ELSE IF parsed[1].strategy_name # <<active>> THEN <<>>
        ELSE parsed

\* process_signal of PivotReversalStrategy and of PivotReversalSLStrategy:
\* `symbol = signal.symbol` is the argument of every exchange call
HandedSymbol(parsed) == parsed[1].symbol

\* the symbol a signal carries ends with the market-type suffix ".P"
HasSuffix(word) == word \in SuffixedWords
\* a symbol of letters and digits with at most one trailing suffix
WellFormedSymbol(word) == word \in AlphaWords \cup SuffixedWords

\* StrategyParser._parse_message_details with the lookup in _strategies_config
_parse_message_details(text, active) ==
    LET parsed == MatchSignal(text)
    IN  IF parsed = <<>> THEN <<>>
        ELSE IF parsed[1].strategy_name # <<active>> THEN <<>>
        ELSE parsed

\* Mutant: no signal is a duplicate.
should_process_always(last, action) == TRUE

\* PivotReversalFilter.should_process / SimpleStrategy.should_process_signal:
\* the first signal, or one whose action differs from last_action.
should_process(last, action) ==
    IF last = None THEN TRUE
    ELSE IF last = action THEN FALSE
    ELSE TRUE

\* Mutant: the filter records nothing.
filter_last_action_never(last, action) == last

\* Mutant: the filter records the first signal only.
filter_last_action_first_only(last, action) ==
    IF last = None THEN action ELSE last

\* last_action once should_process has returned: assigned on the first signal
\* and on a signal of the other direction, left alone on a duplicate.
filter_last_action(last, action) ==
    IF last = None THEN action
    ELSE IF last = action THEN last
    ELSE action

\* Mutant: the loop runs once more than max_retries.
RangeHasNext_one_more(attempt, max_retries) == attempt < max_retries

\* `for attempt in range(max_retries)`: another iteration follows `attempt`.
RangeHasNext(attempt, max_retries) == attempt + 1 < max_retries

\* Mutant: the wrapper sleeps after every failure.
SleepsAfterFailure_always(attempt, max_retries) == TRUE

\* Mutant: the wrapper never sleeps.
SleepsAfterFailure_never(attempt, max_retries) == FALSE

\* `if attempt < max_retries - 1:` before time.sleep(delay)
SleepsAfterFailure(attempt, max_retries) == attempt < max_retries - 1

\* the exception object raised by invocation number n of func
RaisedBy(kind, n) == [kind |-> kind, invocation |-> n]

\* Mutant: the PnL of a long position whatever the side.
_calculate_pnl_long_only(current_price) ==
    (current_price - position_data.entry_price) * position_data.size

\* PositionMonitor._calculate_pnl (reads self.position_data)
_calculate_pnl(current_price) ==
    IF position_data.side = "Buy"
    THEN (current_price - position_data.entry_price) * position_data.size
    ELSE (position_data.entry_price - current_price) * position_data.size

\* _calculate_pnl_percent is pnl_usdt / margin_used * 100 with margin_used =
\* entry_price * size / leverage (_calculate_margin_used): kept as the fraction
\* PnlPercentNum / PnlPercentDen, the denominator being positive.
PnlPercentNum(pnl_usdt) == pnl_usdt * 100 * leverage
PnlPercentDen == position_data.entry_price * position_data.size

\* pnl_percent >= self.pnl_threshold_percent
ReachedThreshold(current_price) ==
    PnlPercentNum(_calculate_pnl(current_price)) >= pnl_threshold_percent * PnlPercentDen

\* Mutant: the test forgets the recorded order id (a trailing stop).
ShouldPlaceStop_ignoring_id(order_id, current_price) ==
    ReachedThreshold(current_price)

\* The test of _on_price_update that leads to _place_stop_loss_order.
ShouldPlaceStop(order_id, current_price) ==
    order_id = 0 /\ ReachedThreshold(current_price)

\* _round_price: round(price, 2).  Prices are kept in thousandths here and in
\* hundredths after rounding; with whole entry prices no value lies half way.
_round_price(thousandths) == (thousandths + 5) \div 10

\* Mutant: the stop is placed on the losing side of the entry price.
stop_price_below_entry ==
    IF position_data.side = "Buy"
    THEN position_data.entry_price * 1000 - position_data.entry_price * stop_loss_percent_x10
    ELSE position_data.entry_price * 1000 + position_data.entry_price * stop_loss_percent_x10

\* _place_stop_loss_order: entry_price +/- entry_price * stop_loss_percent / 100,
\* in thousandths.
stop_price ==
    IF position_data.side = "Buy"
    THEN position_data.entry_price * 1000 + position_data.entry_price * stop_loss_percent_x10
    ELSE position_data.entry_price * 1000 - position_data.entry_price * stop_loss_percent_x10

\* stop_price -/+ price_difference_usdt, in thousandths
limit_price ==
    IF position_data.side = "Buy"
    THEN stop_price - price_difference_usdt * 1000
    ELSE stop_price + price_difference_usdt * 1000

order_side == IF position_data.side = "Buy" THEN "SELL" ELSE "BUY"

\* the keyword arguments of futures_create_order (prices in hundredths)
StopOrder ==
    [side |-> order_side, type |-> "STOP_MARKET", quantity |-> position_data.size,
     stopPrice |-> _round_price(stop_price), price |-> _round_price(limit_price),
     reduceOnly |-> TRUE]

\* Mutant: stop_monitoring never cancels.
HasStopOrder_never(order_id) == FALSE

\* stop_monitoring: `if self.stop_loss_order_id:` before _cancel_stop_loss_order.
HasStopOrder(order_id) == order_id # 0

\* Mutant: a balance equal to position_size is refused.
InsufficientBalance_le(balance) == balance <= position_size

\* The balance test of _open_new_position / _open_position_by_signal.
InsufficientBalance(balance) == balance < position_size

\* signal.is_buy and side Buy, or signal.is_sell and side Sell
SameDirection(action, side) ==
    (action = "buy" /\ side = "Buy") \/ (action = "sell" /\ side = "Sell")

\* Mutant: a reversal opens without closing first.
AfterPositionReconcile_open_first(action, side) ==
    IF side = None THEN "get_account_balance"
    ELSE IF SameDirection(action, side) THEN "return_true"
    ELSE "get_account_balance"

\* Mutant: the same-direction test is dropped, every position is reversed.
AfterPositionReconcile_always_reverse(action, side) ==
    IF side = None THEN "get_account_balance" ELSE "close_position"

\* PivotReversalStrategy / SimpleStrategy process_signal once
\* get_current_position has returned `side`: open, skip, or reverse.
AfterPositionReconcile(action, side) ==
    IF side = None THEN "get_account_balance"
    ELSE IF SameDirection(action, side) THEN "return_true"
    ELSE "close_position"

\* PivotReversalSLStrategy.process_signal, step 2: any position is closed.
AfterPositionSL(side) ==
    IF side # None THEN "close_position" ELSE "get_account_balance"

\* Mutant: the result of close_position is ignored.
AfterClose_ignored(res) == "get_account_balance"

\* `if not self.exchange.close_position(symbol): return False`
AfterClose(res) == IF res = "true" THEN "get_account_balance" ELSE "return_false"

\* Mutant: _reverse_position reports success whatever the open call returned.
AfterOpenReconcile_ignored(res) == "return_true"

\* _open_new_position returns the result of the open call.
AfterOpenReconcile(res) == IF res = "true" THEN "return_true" ELSE "return_false"

\* Mutant: monitoring is started whatever the open call returned.
AfterOpenSL_always_monitor(res) == "start_monitoring"

\* PivotReversalSLStrategy.process_signal, steps 3-4: `if not success: return
\* False`, else start_monitoring.
AfterOpenSL(res) == IF res = "true" THEN "start_monitoring" ELSE "return_false"

\* Mutant: the directions are swapped.
OpenCall_swapped(action) ==
    IF action = "buy" THEN "open_short_position" ELSE "open_long_position"

\* if signal.is_buy: open_long_position(...) else: open_short_position(...)
OpenCall(action) ==
    IF action = "buy" THEN "open_long_position" ELSE "open_short_position"
\* the side of the position a successful open leaves on the exchange
OpenedSide(action) == IF action = "buy" THEN "Buy" ELSE "Sell"

Call(op, res, val) == [op |-> op, res |-> res, val |-> val]

\* Mutant: a failed fetch is not noticed.
AfterFetch_ignored(fetched) == "ws_start"

\* _monitoring_thread: `if not self._fetch_position_data(): return`
AfterFetch(fetched) == IF fetched THEN "ws_start" ELSE "finally"

\* --------------------------------------------------------------- the state
MonitorVars == <<is_monitoring, symbol, position_data, stop_loss_order_id>>
ThreadVars == <<mon, nmon, rdr, rdr_order, nticks>>
\* the price stream's loop and the outcome of the monitors' fetches
StreamVars == <<ws_loop, fetch_failed, last_update>>
TickVars == <<session_submits, held_ticks>>
ExchangeVars == <<ex_position, ex_orders, next_order_id>>
SignalVars == <<sig_monitoring, sig_stop_id>>
\* what the duplicate filter was given and answered (the filter on its own)
FilterVars == <<filter_signals, filter_accepted>>
\* the variables of the components examined on their own, constant elsewhere
\* the state of one call of a function wrapped by retry_on_api_error
RetryVars == <<retry_max, retry_delay, retry_pc, retry_attempt, last_exception,
               retry_invocations, retry_sleeps, retry_outcome>>
\* what the last price update computed and submitted
TickObsVars == <<tick_price, tick_had_id, tick_pnl, tick_order>>
ParserVars == <<active_strategy_name, parsed_message, parse_path, parse_detailed,
                parse_result>>
\* the reconnecting loop of the price stream (the stream on its own)
ConnVars == <<conn_pc, reconnect_attempts, connects_since_tick, dropped, waited,
              reconnected_undelayed>>
\* HealthMonitor (the health monitor on its own)
HealthVars == <<health_monitoring, health_thread, health_starts, self_tested,
                self_test_failures, consecutive_failures, health_uptime,
                health_check_count, health_tick, restart_calls>>
\* RestartManager (the restart manager on its own)
RestartVars == <<restart_requested, request_pc, requests_made, requests_ignored,
                 restart_thread, restart_threads, execv_calls, process>>
\* a wrapped client method calling wrapped queries (nested retries on their own)
NestedVars == <<nested_op, nested_pc, outer_attempt, inner_attempt, inner_index,
                remote_calls, remote_raises, order_raises, nested_sleeps>>
ReloadVars == <<reloads, reload_result, reload_monitoring, reload_stop_id, reload_at,
                old_mon, old_rdr, old_gen, old_ws_running, old_symbol>>
NormVars == <<norm_pc, norm_symbol, norm_result, norm_twice>>
AuxVars == <<FilterVars, RetryVars, TickObsVars, ParserVars, ConnVars, HealthVars, RestartVars, NestedVars, ReloadVars, NormVars>>

FilterIdle ==
    /\ filter_signals = <<>>
    /\ filter_accepted = <<>>

\* no wrapped call is under examination
RetryIdle ==
    /\ retry_max = 0
    /\ retry_delay = 0
    /\ retry_pc = "idle"
    /\ retry_attempt = 0
    /\ last_exception = None
    /\ retry_invocations = <<>>
    /\ retry_sleeps = <<>>
    /\ retry_outcome = None

\* no message has been given to a parser
ParserIdle ==
    /\ active_strategy_name = SL_2_1
    /\ parsed_message = <<>>
    /\ parse_path = None
    /\ parse_detailed = FALSE
    /\ parse_result = <<>>

\* no client method is under examination
ReloadIdle ==
    /\ reloads = 0
    /\ reload_result = None
    /\ reload_monitoring = FALSE
    /\ reload_stop_id = 0
    /\ reload_at = -1
    /\ old_mon = [t \in Threads |-> None]
    /\ old_rdr = [t \in Threads |-> None]
    /\ old_gen = [t \in Threads |-> 0]
    /\ old_ws_running = [g \in Reloads |-> FALSE]
    /\ old_symbol = [g \in Reloads |-> FALSE]

NormIdle ==
    /\ norm_pc = "idle"
    /\ norm_symbol = <<>>
    /\ norm_result = <<>>
    /\ norm_twice = <<>>

NestedIdle ==
    /\ nested_op = None
    /\ nested_pc = "idle"
    /\ outer_attempt = 0
    /\ inner_attempt = 0
    /\ inner_index = 1
    /\ remote_calls = [q \in Queries |-> 0]
    /\ remote_raises = [q \in Queries |-> 0]
    /\ order_raises = 0
    /\ nested_sleeps = 0

\* RestartManager.__init__ in a running process
RestartIdle ==
    /\ restart_requested = FALSE
    /\ request_pc = [c \in RestartCallers |-> "idle"]
    /\ requests_made = 0
    /\ requests_ignored = 0
    /\ restart_thread = [k \in RestartThreads |-> None]
    /\ restart_threads = 0
    /\ execv_calls = 0
    /\ process = "running"

\* HealthMonitor.__init__
HealthIdle ==
    /\ health_monitoring = FALSE
    /\ health_thread = [t \in HealthThreads |-> None]
    /\ health_starts = 0
    /\ self_tested = FALSE
    /\ self_test_failures = 0
    /\ consecutive_failures = 0
    /\ health_uptime = 0
    /\ health_check_count = 0
    /\ health_tick = <<>>
    /\ restart_calls = 0

\* no stream loop is followed
ConnIdle ==
    /\ conn_pc = None
    /\ reconnect_attempts = 0
    /\ connects_since_tick = 0
    /\ dropped = FALSE
    /\ waited = 0
    /\ reconnected_undelayed = FALSE

\* no price update has been handled
TickIdle ==
    /\ tick_price = 0
    /\ tick_had_id = FALSE
    /\ tick_pnl = 0
    /\ tick_order = <<>>

\* The server once StrategyManager, the strategy and its PositionMonitor are
\* constructed and before the first webhook.
MainInit ==
    /\ prev_result = None
    /\ strategy \in Strategies
    /\ trading_enabled \in (IF strategy = "SimpleStrategy" THEN BOOLEAN ELSE {TRUE})
    /\ last_action = None
    /\ pc = "idle"
    /\ signal = None
    /\ nsignals = 0
    /\ current_position = None
    /\ calls = <<>>
    /\ result = None
    /\ ex_position \in {None} \cup Sides
    /\ ex_orders = {}
    /\ next_order_id = 1
    /\ is_monitoring = FALSE
    /\ symbol = FALSE
    /\ position_data = NoPositionData
    /\ stop_loss_order_id = 0
    /\ ws_running = FALSE
    /\ ws_loop = 0
    /\ fetch_failed = {}
    /\ last_update = FALSE
    /\ mon = [t \in Threads |-> None]
    /\ nmon = 0
    /\ rdr = [t \in Threads |-> None]
    /\ rdr_order = [t \in Threads |-> 0]
    /\ nticks = 0
    /\ session_submits = 0
    /\ held_ticks = 0
    /\ sig_monitoring = FALSE
    /\ sig_stop_id = 0

Init ==
    /\ MainInit
    /\ FilterIdle
    /\ RetryIdle
    /\ TickIdle
    /\ NormIdle
    /\ ReloadIdle
    /\ NestedIdle
    /\ RestartIdle
    /\ HealthIdle
    /\ ConnIdle
    /\ ParserIdle

\* all variables of the request path, the exchange, the monitor and its threads
MainVars == <<strategy, trading_enabled, last_action, pc, signal, nsignals,
              current_position, calls, result, prev_result, SignalVars,
              ExchangeVars, MonitorVars, ws_running, StreamVars, ThreadVars,
              TickVars>>
\* one server, as constructed
MainIdle ==
    /\ MainInit
    /\ strategy = "PivotReversalSLStrategy"
    /\ ex_position = None

\* process_signal returns: process_webhook_message maps True to 'success' and
\* False to 'error'.
Return(ok) ==
    /\ pc' = "idle"
    /\ result' = IF ok THEN "success" ELSE "error"

Goto(step) ==
    IF step = "return_true" THEN Return(TRUE)
    ELSE IF step = "return_false" THEN Return(FALSE)
    ELSE pc' = step /\ UNCHANGED result

\* ------------------------------------------------------- the request path
\* StrategyManager.process_webhook_message for a message that parses to a signal
\* of the active strategy: the duplicate filter, then process_signal.
AcceptSignal(action) ==
    /\ pc = "idle"
    /\ nsignals < MaxSignals
    /\ nsignals' = nsignals + 1
    /\ signal' = action
    /\ calls' = <<>>
    /\ current_position' = None
    /\ last_action' = filter_last_action(last_action, action)
    /\ IF should_process(last_action, action)
       THEN /\ pc' = "process_signal"
            /\ result' = "pending"
       ELSE /\ result' = "ignored"
            /\ UNCHANGED pc
    /\ prev_result' = result
    /\ UNCHANGED <<strategy, trading_enabled, ExchangeVars, MonitorVars, ws_running,
                   StreamVars, ThreadVars, TickVars, SignalVars>>

process_webhook_message(action) ==
    /\ AcceptSignal(action)
    /\ UNCHANGED AuxVars

\* StrategyManager.process_webhook_message(message), whole: the parser of the
\* active strategy, the check of the strategy name, and for a signal that
\* passes both the duplicate filter and process_signal.  A message that does
\* not pass returns None at once.
process_webhook_text(message) ==
    LET parsed == Route(strategy, message, active_strategy_name)
    IN  /\ pc = "idle"
        /\ nsignals < MaxSignals
        /\ parsed_message' = message
        /\ parse_path' = "StrategyManager"
        /\ parse_detailed' = (parse_message(strategy, message) # <<>>)
        /\ parse_result' = parsed
        /\ IF parsed = <<>>
           THEN /\ nsignals' = nsignals + 1
                /\ calls' = <<>>
                /\ result' = None
                /\ prev_result' = result
                /\ UNCHANGED <<strategy, trading_enabled, last_action, pc, signal,
                               current_position, SignalVars, ExchangeVars,
                               MonitorVars, ws_running, StreamVars, ThreadVars,
                               TickVars>>
           ELSE AcceptSignal(parsed[1].action)
        /\ UNCHANGED <<FilterVars, RetryVars, TickObsVars, active_strategy_name,
                   ConnVars,
                   HealthVars,
                   RestartVars,
                   NestedVars,
                   ReloadVars,
                   NormVars>>

\* BinanceWebSocketManager._run_websocket_thread closes its event loop when
\* _websocket_loop ends; _loop still points to it until _reset_state.
LoopClosed == ws_loop # 0 /\ rdr[ws_loop] \in {"closed", "done"}

\* BinanceWebSocketManager.stop(): with _is_running set, a socket and a loop
\* recorded, asyncio.run_coroutine_threadsafe raises RuntimeError when that
\* loop is closed; _is_running is already False and _reset_state is not reached.
StopRaises == ws_running /\ LoopClosed

\* _loop / _websocket once stop() has returned: untouched when the stream was
\* not running, None after _reset_state.
LoopAfterStop == IF ws_running THEN 0 ELSE ws_loop
\* last_update once stop() has returned
UpdateAfterStop == IF ws_running THEN FALSE ELSE last_update

\* The head of process_signal.  PivotReversalSLStrategy stops the running monitor
\* (stop_monitoring up to websocket_manager.stop(); an exception of stop() leaves
\* stop_monitoring and is caught by process_signal, which returns False);
\* SimpleStrategy refuses when trading is disabled.
process_signal ==
    /\ pc = "process_signal"
    /\ sig_monitoring' = (strategy = "PivotReversalSLStrategy" /\ is_monitoring)
    /\ sig_stop_id' = stop_loss_order_id
    /\ IF strategy = "PivotReversalSLStrategy" /\ is_monitoring
       THEN /\ is_monitoring' = FALSE
            /\ ws_running' = FALSE
            /\ IF StopRaises
               THEN /\ calls' = Append(calls, Call("ws_stop", "raise", 0))
                    /\ Goto("return_false")
                    /\ UNCHANGED <<ws_loop, last_update>>
               ELSE /\ calls' = Append(calls, Call("ws_stop", "ok", 0))
                    /\ Goto("stop_monitoring_cancel")
                    /\ ws_loop' = LoopAfterStop
                    /\ last_update' = UpdateAfterStop
       ELSE /\ IF strategy = "SimpleStrategy" /\ ~trading_enabled
               THEN Goto("return_false")
               ELSE Goto("get_current_position")
            /\ UNCHANGED <<is_monitoring, ws_running, ws_loop, last_update, calls>>
    /\ UNCHANGED <<AuxVars, prev_result, strategy, trading_enabled, last_action, signal, nsignals,
                   current_position, ExchangeVars, symbol, position_data,
                   stop_loss_order_id, fetch_failed, ThreadVars, TickVars>>

\* stop_monitoring, lines 98-100: _cancel_stop_loss_order when an id is recorded.
\* futures_cancel_order either cancels the order or raises (logged, id kept).
stop_monitoring_cancel ==
    /\ pc = "stop_monitoring_cancel"
    /\ IF HasStopOrder(stop_loss_order_id)
       THEN \E ok \in BOOLEAN :
              /\ calls' = Append(calls, Call("futures_cancel_order",
                                             IF ok THEN "ok" ELSE "raise",
                                             stop_loss_order_id))
              /\ IF ok
                 THEN /\ ex_orders' = ex_orders \ {stop_loss_order_id}
                      /\ stop_loss_order_id' = 0
                 ELSE UNCHANGED <<ex_orders, stop_loss_order_id>>
       ELSE UNCHANGED <<calls, ex_orders, stop_loss_order_id>>
    /\ Goto("stop_monitoring_reset")
    /\ UNCHANGED <<AuxVars, prev_result, strategy, trading_enabled, last_action, signal, nsignals,
                   current_position, ex_position, next_order_id, is_monitoring,
                   symbol, position_data, ws_running, StreamVars, ThreadVars, TickVars,
                   SignalVars>>

\* stop_monitoring, line 102: _reset_state.
stop_monitoring_reset ==
    /\ pc = "stop_monitoring_reset"
    /\ symbol' = FALSE
    /\ position_data' = NoPositionData
    /\ stop_loss_order_id' = 0
    /\ Goto("get_current_position")
    /\ UNCHANGED <<AuxVars, prev_result, strategy, trading_enabled, last_action, signal, nsignals,
                   current_position, calls, ExchangeVars, is_monitoring, ws_running,
                   StreamVars, ThreadVars, TickVars, SignalVars>>

\* exchange.get_current_position(symbol) in process_signal.
get_current_position ==
    /\ pc = "get_current_position"
    /\ \E ok \in BOOLEAN :
         IF ok
         THEN /\ current_position' = ex_position
              /\ calls' = Append(calls, Call("get_current_position", ex_position, 0))
              /\ Goto(IF strategy = "PivotReversalSLStrategy"
                      THEN AfterPositionSL(ex_position)
                      ELSE AfterPositionReconcile(signal, ex_position))
         ELSE /\ calls' = Append(calls, Call("get_current_position", "raise", 0))
              /\ Goto("return_false")
              /\ UNCHANGED current_position
    /\ UNCHANGED <<AuxVars, prev_result, strategy, trading_enabled, last_action, signal, nsignals,
                   ExchangeVars, MonitorVars, ws_running, StreamVars, ThreadVars,
                   TickVars, SignalVars>>

\* exchange.close_position(symbol): True closes the position; False or an
\* exception leaves it.
close_position ==
    /\ pc = "close_position"
    /\ \E res \in {"true", "false", "raise"} :
         /\ calls' = Append(calls, Call("close_position", res, 0))
         /\ ex_position' = IF res = "true" THEN None ELSE ex_position
         /\ Goto(AfterClose(res))
    /\ UNCHANGED <<AuxVars, prev_result, strategy, trading_enabled, last_action, signal, nsignals,
                   current_position, ex_orders, next_order_id, MonitorVars,
                   ws_running, StreamVars, ThreadVars, TickVars, SignalVars>>

\* exchange.get_account_balance(quote_currency) and the balance test.
get_account_balance ==
    /\ pc = "get_account_balance"
    /\ \/ \E balance \in Balances :
            /\ calls' = Append(calls, Call("get_account_balance", "ok", balance))
            /\ Goto(IF InsufficientBalance(balance) THEN "return_false"
                    ELSE "open_position")
       \/ /\ calls' = Append(calls, Call("get_account_balance", "raise", 0))
          /\ Goto("return_false")
    /\ UNCHANGED <<AuxVars, prev_result, strategy, trading_enabled, last_action, signal, nsignals,
                   current_position, ExchangeVars, MonitorVars, ws_running,
                   StreamVars, ThreadVars, TickVars, SignalVars>>

\* exchange.open_long_position / open_short_position.
open_position ==
    /\ pc = "open_position"
    /\ \E res \in {"true", "false", "raise"} :
         /\ calls' = Append(calls, Call(OpenCall(signal), res, 0))
         /\ ex_position' = IF res = "true" THEN OpenedSide(signal) ELSE ex_position
         /\ Goto(IF strategy = "PivotReversalSLStrategy"
                 THEN AfterOpenSL(res)
                 ELSE AfterOpenReconcile(res))
    /\ UNCHANGED <<AuxVars, prev_result, strategy, trading_enabled, last_action, signal, nsignals,
                   current_position, ex_orders, next_order_id, MonitorVars,
                   ws_running, StreamVars, ThreadVars, TickVars, SignalVars>>

\* PositionMonitor.start_monitoring, then process_signal returns True and
\* process_webhook_message asks the strategy for get_monitoring_status.
start_monitoring ==
    /\ pc = "start_monitoring"
    /\ IF is_monitoring
       THEN /\ calls' = Append(calls, Call("start_monitoring", "false", 0))
            /\ UNCHANGED <<symbol, is_monitoring, mon, nmon, session_submits, held_ticks>>
       ELSE /\ calls' = Append(calls, Call("start_monitoring", "true", 0))
            /\ symbol' = TRUE
            /\ is_monitoring' = TRUE
            /\ nmon' = nmon + 1
            /\ mon' = [mon EXCEPT ![nmon + 1] = "fetch"]
            /\ session_submits' = 0
            /\ held_ticks' = 0
    /\ Goto("get_monitoring_status")
    /\ UNCHANGED <<AuxVars, prev_result, strategy, trading_enabled, last_action, signal, nsignals,
                   current_position, ExchangeVars, position_data, stop_loss_order_id,
                   ws_running, StreamVars, rdr, rdr_order, nticks, SignalVars>>

\* PivotReversalSLStrategy.get_monitoring_status up to the first line of
\* is_connected: `if not self._is_running or not self.last_update: return False`.
get_monitoring_status ==
    /\ pc = "get_monitoring_status"
    /\ IF is_monitoring /\ ws_running /\ last_update
       THEN Goto("is_connected")
       ELSE Goto("return_true")
    /\ UNCHANGED <<AuxVars, prev_result, strategy, trading_enabled, last_action, signal, nsignals,
                   current_position, calls, ExchangeVars, MonitorVars, ws_running,
                   StreamVars, ThreadVars, TickVars, SignalVars>>

\* is_connected, second line: `datetime.now() - self.last_update` reads the
\* field again; None there is a TypeError nothing catches before it leaves
\* process_webhook_message.
is_connected ==
    /\ pc = "is_connected"
    /\ IF last_update
       THEN Return(TRUE)
       ELSE pc' = "idle" /\ result' = "raised"
    /\ UNCHANGED <<AuxVars, prev_result, strategy, trading_enabled, last_action, signal, nsignals,
                   current_position, calls, ExchangeVars, MonitorVars, ws_running,
                   StreamVars, ThreadVars, TickVars, SignalVars>>

RequestVars == <<strategy, trading_enabled, last_action, pc, signal, nsignals,
                 current_position, calls, result, prev_result, SignalVars>>

\* ---------------------------------------------- _monitoring_thread (per start)
\* After the settle delay: _fetch_position_data.
MonitorFetch(t) ==
    /\ mon[t] = "fetch"
    /\ \E ok \in BOOLEAN :
         LET fetched == ok /\ ex_position # None
         IN /\ position_data' = IF fetched
                               THEN [side |-> ex_position, entry_price |-> EntryPrice,
                                     size |-> PositionQty]
                               ELSE position_data
            /\ fetch_failed' = IF fetched THEN fetch_failed ELSE fetch_failed \cup {t}
            /\ mon' = [mon EXCEPT ![t] = AfterFetch(fetched)]
    /\ UNCHANGED <<AuxVars, RequestVars, ExchangeVars, is_monitoring, symbol,
                   stop_loss_order_id, ws_running, ws_loop, last_update, nmon, rdr,
                   rdr_order, nticks, TickVars>>

\* Mutant: start does not look at _is_running.
StartRefused_never(running) == FALSE

\* BinanceWebSocketManager.start: `if self._is_running: ... return False`
StartRefused(running) == running

\* websocket_manager.start(self.symbol): refused while a stream is running;
\* symbol None raises in symbol.lower().  The reader thread it starts creates
\* its event loop and connects (_loop, _websocket).
MonitorStartStream(t) ==
    /\ mon[t] = "ws_start"
    /\ IF StartRefused(ws_running) \/ ~symbol
       THEN /\ mon' = [mon EXCEPT ![t] = "finally"]
            /\ UNCHANGED <<ws_running, ws_loop, rdr>>
       ELSE /\ ws_running' = TRUE
            /\ ws_loop' = t
            /\ rdr' = [rdr EXCEPT ![t] = "listen"]
            /\ mon' = [mon EXCEPT ![t] = "loop"]
    /\ UNCHANGED <<AuxVars, RequestVars, ExchangeVars, MonitorVars, fetch_failed,
                   last_update, nmon,
                   rdr_order, nticks, TickVars>>

\* while self.is_monitoring: time.sleep(1) -- the loop ends when the flag is off.
MonitorLoopExit(t) ==
    /\ mon[t] = "loop"
    /\ ~is_monitoring
    /\ mon' = [mon EXCEPT ![t] = "finally"]
    /\ UNCHANGED <<AuxVars, RequestVars, ExchangeVars, MonitorVars, ws_running,
                   StreamVars, nmon, rdr, rdr_order, nticks, TickVars>>

\* finally: self.websocket_manager.stop() -- the thread ends whether stop()
\* returns or raises.
MonitorFinally(t) ==
    /\ mon[t] = "finally"
    /\ ws_running' = FALSE
    /\ ws_loop' = IF StopRaises THEN ws_loop ELSE LoopAfterStop
    /\ last_update' = IF StopRaises THEN last_update ELSE UpdateAfterStop
    /\ mon' = [mon EXCEPT ![t] = "done"]
    /\ UNCHANGED <<AuxVars, RequestVars, ExchangeVars, MonitorVars, fetch_failed, nmon,
                   rdr, rdr_order, nticks, TickVars>>

\* ------------------------------------------------- websocket reader thread
\* One ticker message: _process_message calls _on_price_update, which may call
\* _place_stop_loss_order; futures_create_order either rests the order on the
\* exchange and returns its id, or raises.
ReaderTick(r, current_price) ==
    /\ rdr[r] = "listen"
    /\ ws_running
    /\ nticks < MaxTicks
    /\ nticks' = nticks + 1
    /\ IF is_monitoring /\ position_data # NoPositionData
       THEN IF ShouldPlaceStop(stop_loss_order_id, current_price)
            THEN /\ session_submits' = session_submits + 1
                 /\ \/ /\ ex_orders' = ex_orders \cup {next_order_id}
                       /\ next_order_id' = next_order_id + 1
                       /\ rdr_order' = [rdr_order EXCEPT ![r] = next_order_id]
                       /\ rdr' = [rdr EXCEPT ![r] = "record"]
                    \/ UNCHANGED <<ex_orders, next_order_id, rdr_order, rdr>>
                 /\ UNCHANGED held_ticks
            ELSE /\ held_ticks' = IF stop_loss_order_id # 0
                                     /\ ReachedThreshold(current_price)
                                  THEN held_ticks + 1 ELSE held_ticks
                 /\ UNCHANGED <<session_submits, ex_orders, next_order_id,
                                rdr_order, rdr>>
       ELSE UNCHANGED <<TickVars, ex_orders, next_order_id, rdr_order, rdr>>
    /\ last_update' = TRUE
    /\ UNCHANGED <<AuxVars, RequestVars, ex_position, MonitorVars, ws_running,
                   ws_loop, fetch_failed, mon, nmon>>

\* self.stop_loss_order_id = response['orderId']
ReaderRecord(r) ==
    /\ rdr[r] = "record"
    /\ stop_loss_order_id' = rdr_order[r]
    /\ rdr_order' = [rdr_order EXCEPT ![r] = 0]
    /\ rdr' = [rdr EXCEPT ![r] = "listen"]
    /\ UNCHANGED <<AuxVars, RequestVars, ExchangeVars, is_monitoring, symbol, position_data,
                   ws_running, StreamVars, mon, nmon, nticks, TickVars>>

\* The reader leaves its loops once it sees _is_running false.
ReaderExit(r) ==
    /\ rdr[r] = "listen"
    /\ ~ws_running
    /\ rdr' = [rdr EXCEPT ![r] = "done"]
    /\ UNCHANGED <<AuxVars, RequestVars, ExchangeVars, MonitorVars, ws_running,
                   StreamVars, mon, nmon, rdr_order, nticks, TickVars>>

\* _websocket_loop: the connection is lost and more than _max_reconnect_attempts
\* reconnections fail while _is_running holds: the loop breaks, the thread ends
\* and closes its event loop; _is_running is left True.
ReaderGiveUp(r) ==
    /\ rdr[r] = "listen"
    /\ ws_running
    /\ rdr' = [rdr EXCEPT ![r] = "closed"]
    /\ UNCHANGED <<AuxVars, RequestVars, ExchangeVars, MonitorVars, ws_running,
                   StreamVars, mon, nmon, rdr_order, nticks, TickVars>>

Next ==
    \/ \E action \in Actions : process_webhook_message(action)
    \/ process_signal
    \/ stop_monitoring_cancel
    \/ stop_monitoring_reset
    \/ get_current_position
    \/ close_position
    \/ get_account_balance
    \/ open_position
    \/ start_monitoring
    \/ get_monitoring_status
    \/ is_connected
    \/ \E t \in Threads : MonitorFetch(t)
    \/ \E t \in Threads : MonitorStartStream(t)
    \/ \E t \in Threads : MonitorLoopExit(t)
    \/ \E t \in Threads : MonitorFinally(t)
    \/ \E r \in Threads, p \in Prices : ReaderTick(r, p)
    \/ \E r \in Threads : ReaderRecord(r)
    \/ \E r \in Threads : ReaderExit(r)
    \/ \E r \in Threads : ReaderGiveUp(r)

Spec == Init /\ [][Next]_vars

\* The monitor threads and the reader threads are started threads of a live
\* process: each step they can take is taken in the end.
ThreadFairness ==
    \A t \in Threads :
        /\ WF_vars(MonitorFetch(t))
        /\ WF_vars(MonitorStartStream(t))
        /\ WF_vars(MonitorLoopExit(t))
        /\ WF_vars(MonitorFinally(t))
        /\ WF_vars(ReaderRecord(t))
        /\ WF_vars(ReaderExit(t))

LiveSpec == Init /\ [][Next]_vars /\ ThreadFairness

\* ------------------------------------------ StrategyManager.reload_config
\* POST /reload-config runs on the server's event loop like a webhook.  The
\* strategy it replaces, its PositionMonitor and its stream stay alive for as
\* long as their threads run; the variables of the monitor and the stream
\* describe the objects of the active strategy, old_* those of a replaced one.
ComponentVars == <<FilterVars, RetryVars, TickObsVars, ParserVars, ConnVars, HealthVars,
                   RestartVars, NestedVars, NormVars>>

\* reload_config, lines 119-120: active_strategy.cleanup(), which calls
\* stop_monitoring when is_monitoring holds; this is stop_monitoring up to
\* websocket_manager.stop().  An exception of stop() leaves cleanup and
\* reload_config (the endpoint answers 500): no strategy is constructed.
reload_config ==
    /\ pc = "idle"
    /\ reloads < MaxReloads
    /\ strategy = "PivotReversalSLStrategy"
    /\ reloads' = reloads + 1
    /\ reload_monitoring' = is_monitoring
    /\ reload_stop_id' = stop_loss_order_id
    /\ IF is_monitoring
       THEN /\ is_monitoring' = FALSE
            /\ ws_running' = FALSE
            /\ IF StopRaises
               THEN /\ reload_result' = "raised"
                    /\ UNCHANGED <<pc, ws_loop, last_update>>
               ELSE /\ reload_result' = "pending"
                    /\ pc' = "reload_cancel"
                    /\ ws_loop' = LoopAfterStop
                    /\ last_update' = UpdateAfterStop
       ELSE /\ reload_result' = "pending"
            /\ pc' = "reload_construct"
            /\ UNCHANGED <<is_monitoring, ws_running, ws_loop, last_update>>
    /\ UNCHANGED <<ComponentVars, prev_result, strategy, trading_enabled, last_action,
                   signal, nsignals, current_position, calls, result, ExchangeVars,
                   symbol, position_data, stop_loss_order_id, fetch_failed,
                   ThreadVars, TickVars, SignalVars, reload_at, old_mon, old_rdr,
                   old_gen, old_ws_running, old_symbol>>

\* stop_monitoring called by cleanup, lines 98-100: _cancel_stop_loss_order
\* when an id is recorded; futures_cancel_order cancels the order or raises
\* (logged, False returned and ignored).
reload_cancel ==
    /\ pc = "reload_cancel"
    /\ IF HasStopOrder(stop_loss_order_id)
       THEN \E ok \in BOOLEAN :
              IF ok
              THEN /\ ex_orders' = ex_orders \ {stop_loss_order_id}
                   /\ stop_loss_order_id' = 0
              ELSE UNCHANGED <<ex_orders, stop_loss_order_id>>
       ELSE UNCHANGED <<ex_orders, stop_loss_order_id>>
    /\ pc' = "reload_construct"
    /\ UNCHANGED <<ComponentVars, prev_result, strategy, trading_enabled, last_action,
                   signal, nsignals, current_position, calls, result, ex_position,
                   next_order_id, is_monitoring, symbol, position_data, ws_running,
                   StreamVars, ThreadVars, TickVars, SignalVars, ReloadVars>>

\* The end of stop_monitoring (_reset_state) when cleanup called it, then
\* reload_config lines 122-124: active_strategy = None and _initialize_strategies
\* constructs the strategy again: PivotReversalFilter() with last_action None,
\* PositionMonitor(exchange) not monitoring, with its own stream manager.  The
\* threads of the replaced monitor go on with the replaced objects.
reload_construct ==
    /\ pc = "reload_construct"
    /\ pc' = "idle"
    /\ reload_result' = "success"
    /\ reload_at' = nsignals
    /\ old_mon' = [t \in Threads |-> IF mon[t] = None THEN old_mon[t] ELSE mon[t]]
    /\ old_rdr' = [t \in Threads |-> IF mon[t] = None THEN old_rdr[t] ELSE rdr[t]]
    /\ old_gen' = [t \in Threads |-> IF mon[t] = None THEN old_gen[t] ELSE reloads]
    /\ old_ws_running' = [old_ws_running EXCEPT ![reloads] = ws_running]
    /\ old_symbol' = [old_symbol EXCEPT ![reloads] = symbol /\ ~reload_monitoring]
    /\ mon' = [t \in Threads |-> IF mon[t] = None THEN None ELSE "replaced"]
    /\ rdr' = [t \in Threads |-> IF rdr[t] = None THEN None ELSE "replaced"]
    /\ rdr_order' = [t \in Threads |-> 0]
    /\ last_action' = None
    /\ is_monitoring' = FALSE
    /\ symbol' = FALSE
    /\ position_data' = NoPositionData
    /\ stop_loss_order_id' = 0
    /\ ws_running' = FALSE
    /\ ws_loop' = 0
    /\ last_update' = FALSE
    /\ UNCHANGED <<ComponentVars, prev_result, strategy, trading_enabled, signal,
                   nsignals, current_position, calls, result, ExchangeVars,
                   fetch_failed, nmon, nticks, TickVars, SignalVars, reloads,
                   reload_monitoring, reload_stop_id>>

ReplacedUnchanged ==
    UNCHANGED <<ComponentVars, MainVars, reloads, reload_result, reload_monitoring,
                reload_stop_id, reload_at, old_gen, old_symbol>>

\* _monitoring_thread of a replaced monitor, after the settle delay:
\* _fetch_position_data.
ReplacedMonitorFetch(t) ==
    /\ old_mon[t] = "fetch"
    /\ \E ok \in BOOLEAN :
         old_mon' = [old_mon EXCEPT ![t] = AfterFetch(ok /\ ex_position # None)]
    /\ UNCHANGED <<old_rdr, old_ws_running>>
    /\ ReplacedUnchanged

\* websocket_manager.start(self.symbol) of a replaced monitor: symbol None
\* raises in symbol.lower(), a running stream refuses.
ReplacedMonitorStartStream(t) ==
    /\ old_mon[t] = "ws_start"
    /\ IF StartRefused(old_ws_running[old_gen[t]]) \/ ~old_symbol[old_gen[t]]
       THEN /\ old_mon' = [old_mon EXCEPT ![t] = "finally"]
            /\ UNCHANGED <<old_rdr, old_ws_running>>
       ELSE /\ old_ws_running' = [old_ws_running EXCEPT ![old_gen[t]] = TRUE]
            /\ old_rdr' = [old_rdr EXCEPT ![t] = "listen"]
            /\ old_mon' = [old_mon EXCEPT ![t] = "loop"]
    /\ ReplacedUnchanged

\* `while self.is_monitoring` of a replaced monitor: its flag is off (cleanup
\* stops a monitor whose flag is on).
ReplacedMonitorLoopExit(t) ==
    /\ old_mon[t] = "loop"
    /\ old_mon' = [old_mon EXCEPT ![t] = "finally"]
    /\ UNCHANGED <<old_rdr, old_ws_running>>
    /\ ReplacedUnchanged

\* finally: self.websocket_manager.stop() on the replaced stream
ReplacedMonitorFinally(t) ==
    /\ old_mon[t] = "finally"
    /\ old_mon' = [old_mon EXCEPT ![t] = "done"]
    /\ old_ws_running' = [old_ws_running EXCEPT ![old_gen[t]] = FALSE]
    /\ UNCHANGED old_rdr
    /\ ReplacedUnchanged

\* self.stop_loss_order_id = response['orderId'] on the replaced monitor: the
\* order rests on the exchange, the id is recorded where nothing reads it.
ReplacedReaderRecord(r) ==
    /\ old_rdr[r] = "record"
    /\ old_rdr' = [old_rdr EXCEPT ![r] = "listen"]
    /\ UNCHANGED <<old_mon, old_ws_running>>
    /\ ReplacedUnchanged

\* The reader of a replaced stream sees _is_running false and ends.  (Its
\* price messages reach _on_price_update of the replaced monitor, which
\* returns at `if not self.is_monitoring`.)
ReplacedReaderExit(r) ==
    /\ old_rdr[r] = "listen"
    /\ ~old_ws_running[old_gen[r]]
    /\ old_rdr' = [old_rdr EXCEPT ![r] = "done"]
    /\ UNCHANGED <<old_mon, old_ws_running>>
    /\ ReplacedUnchanged

\* The reader of a replaced stream gives up reconnecting.
ReplacedReaderGiveUp(r) ==
    /\ old_rdr[r] = "listen"
    /\ old_ws_running[old_gen[r]]
    /\ old_rdr' = [old_rdr EXCEPT ![r] = "closed"]
    /\ UNCHANGED <<old_mon, old_ws_running>>
    /\ ReplacedUnchanged

\* one server running PivotReversalSLStrategy, before the first webhook
ReloadInit ==
    /\ MainInit
    /\ strategy = "PivotReversalSLStrategy"
    /\ FilterIdle
    /\ RetryIdle
    /\ TickIdle
    /\ NormIdle
    /\ ReloadIdle
    /\ NestedIdle
    /\ RestartIdle
    /\ HealthIdle
    /\ ConnIdle
    /\ ParserIdle

ReloadNext ==
    \/ Next
    \/ reload_config
    \/ reload_cancel
    \/ reload_construct
    \/ \E t \in Threads : ReplacedMonitorFetch(t)
    \/ \E t \in Threads : ReplacedMonitorStartStream(t)
    \/ \E t \in Threads : ReplacedMonitorLoopExit(t)
    \/ \E t \in Threads : ReplacedMonitorFinally(t)
    \/ \E r \in Threads : ReplacedReaderRecord(r)
    \/ \E r \in Threads : ReplacedReaderExit(r)
    \/ \E r \in Threads : ReplacedReaderGiveUp(r)

ReloadSpec == ReloadInit /\ [][ReloadNext]_vars

\* ------------------------------------------- the request path from the text
WebhookInit ==
    /\ MainInit
    /\ FilterIdle
    /\ RetryIdle
    /\ TickIdle
    /\ NormIdle
    /\ ReloadIdle
    /\ NestedIdle
    /\ RestartIdle
    /\ HealthIdle
    /\ ConnIdle
    /\ active_strategy_name = ActiveName(strategy)
    /\ parsed_message = <<>>
    /\ parse_path = None
    /\ parse_detailed = FALSE
    /\ parse_result = <<>>

WebhookNext ==
    \/ \E message \in WebhookMessages : process_webhook_text(message)
    \/ process_signal
    \/ stop_monitoring_cancel
    \/ stop_monitoring_reset
    \/ get_current_position
    \/ close_position
    \/ get_account_balance
    \/ open_position
    \/ start_monitoring
    \/ get_monitoring_status
    \/ is_connected
    \/ \E t \in Threads : MonitorFetch(t)
    \/ \E t \in Threads : MonitorStartStream(t)
    \/ \E t \in Threads : MonitorLoopExit(t)
    \/ \E t \in Threads : MonitorFinally(t)
    \/ \E r \in Threads, p \in Prices : ReaderTick(r, p)
    \/ \E r \in Threads : ReaderRecord(r)
    \/ \E r \in Threads : ReaderExit(r)
    \/ \E r \in Threads : ReaderGiveUp(r)

WebhookSpec == WebhookInit /\ [][WebhookNext]_vars

\* ------------------------------------------- the duplicate filter on its own
\* The request-path variables other than the filter's last_action.
RequestVarsButFilter == <<strategy, trading_enabled, pc, signal, nsignals,
                          current_position, calls, result, prev_result, SignalVars>>

\* One call of PivotReversalFilter.should_process(signal) (the same code as
\* SimpleStrategy.should_process_signal): only signal.action is read.
FilterShouldProcess(s) ==
    /\ Len(filter_signals) < MaxFilterSignals
    /\ filter_signals' = Append(filter_signals, s)
    /\ filter_accepted' = Append(filter_accepted, should_process(last_action, s.action))
    /\ last_action' = filter_last_action(last_action, s.action)
    /\ UNCHANGED <<RequestVarsButFilter, ExchangeVars, MonitorVars, ws_running,
                   StreamVars, ThreadVars, TickVars, RetryVars, TickObsVars,
                   ParserVars,
                   ConnVars,
                   HealthVars,
                   RestartVars,
                   NestedVars,
                   ReloadVars,
                   NormVars>>

FilterInit ==
    /\ MainIdle
    /\ FilterIdle
    /\ RetryIdle
    /\ TickIdle
    /\ NormIdle
    /\ ReloadIdle
    /\ NestedIdle
    /\ RestartIdle
    /\ HealthIdle
    /\ ConnIdle
    /\ ParserIdle

FilterNext == \E s \in TradingSignals : FilterShouldProcess(s)

FilterSpec == FilterInit /\ [][FilterNext]_vars

\* ------------------------------------- the price update handler on its own
\* A monitoring session whose thread has fetched `position`: start_monitoring
\* and _fetch_position_data.
TickSession(position) ==
    /\ ~is_monitoring
    /\ is_monitoring' = TRUE
    /\ symbol' = TRUE
    /\ position_data' = position
    /\ UNCHANGED <<RequestVars, ExchangeVars, stop_loss_order_id, ws_running,
                   StreamVars, ThreadVars, TickVars, FilterVars, RetryVars,
                   TickObsVars, ParserVars,
                   ConnVars,
                   HealthVars,
                   RestartVars,
                   NestedVars,
                   ReloadVars,
                   NormVars>>

\* PositionMonitor._on_price_update(_symbol, current_price) with
\* _place_stop_loss_order: futures_create_order returns the order, whose id is
\* recorded, or raises (logged).
_on_price_update(current_price) ==
    /\ is_monitoring /\ position_data # NoPositionData
    /\ nticks < MaxTicks
    /\ nticks' = nticks + 1
    /\ tick_price' = current_price
    /\ tick_had_id' = (stop_loss_order_id # 0)
    /\ tick_pnl' = _calculate_pnl(current_price)
    /\ IF ShouldPlaceStop(stop_loss_order_id, current_price)
       THEN /\ tick_order' = <<StopOrder>>
            /\ \/ /\ ex_orders' = ex_orders \cup {next_order_id}
                  /\ next_order_id' = next_order_id + 1
                  /\ stop_loss_order_id' = next_order_id
               \/ UNCHANGED <<ex_orders, next_order_id, stop_loss_order_id>>
       ELSE /\ tick_order' = <<>>
            /\ UNCHANGED <<ex_orders, next_order_id, stop_loss_order_id>>
    /\ UNCHANGED <<RequestVars, ex_position, is_monitoring, symbol, position_data,
                   ws_running, StreamVars, mon, nmon, rdr, rdr_order, TickVars,
                   FilterVars, RetryVars, ParserVars,
                   ConnVars,
                   HealthVars,
                   RestartVars,
                   NestedVars,
                   ReloadVars,
                   NormVars>>

TickInit ==
    /\ MainIdle
    /\ FilterIdle
    /\ RetryIdle
    /\ TickIdle
    /\ NormIdle
    /\ ReloadIdle
    /\ NestedIdle
    /\ RestartIdle
    /\ HealthIdle
    /\ ConnIdle
    /\ ParserIdle

TickNext ==
    \/ \E position \in PositionDatas : TickSession(position)
    \/ \E d \in PriceMoves : _on_price_update(position_data.entry_price + d)

TickSpec == TickInit /\ [][TickNext]_vars

\* ------------------------------------------------- the parsers on their own
\* StrategyManager.process_webhook_message(message) as far as the check of the
\* strategy name: active_strategy.parse_message is PivotReversalSLParser.parse.
process_webhook_parse(message) ==
    /\ parsed_message' = message
    /\ parse_path' = "StrategyManager"
    /\ parse_detailed' = can_parse(message)
    /\ parse_result' = ManagerRoute(message, active_strategy_name)
    /\ UNCHANGED <<MainVars, FilterVars, RetryVars, TickObsVars, active_strategy_name,
                   ConnVars,
                   HealthVars,
                   RestartVars,
                   NestedVars,
                   ReloadVars,
                   NormVars>>

\* StrategyParser.parse(text_message)
StrategyParser_parse(text_message) ==
    /\ parsed_message' = text_message
    /\ parse_path' = "StrategyParser"
    /\ parse_detailed' =
          _is_message_from_active_strategy(text_message, active_strategy_name)
    /\ parse_result' =
          IF _is_message_from_active_strategy(text_message, active_strategy_name)
          THEN _parse_message_details(strip(text_message), active_strategy_name)
          ELSE <<>>
    /\ UNCHANGED <<MainVars, FilterVars, RetryVars, TickObsVars, active_strategy_name,
                   ConnVars,
                   HealthVars,
                   RestartVars,
                   NestedVars,
                   ReloadVars,
                   NormVars>>

ParserInit ==
    /\ MainIdle
    /\ FilterIdle
    /\ RetryIdle
    /\ TickIdle
    /\ NormIdle
    /\ ReloadIdle
    /\ NestedIdle
    /\ RestartIdle
    /\ HealthIdle
    /\ ConnIdle
    /\ active_strategy_name \in SLStrategyNames
    /\ parsed_message = <<>>
    /\ parse_path = None
    /\ parse_detailed = FALSE
    /\ parse_result = <<>>

ParserNext ==
    \/ \E message \in Messages : process_webhook_parse(message)
    \/ \E text_message \in Messages : StrategyParser_parse(text_message)

ParserSpec == ParserInit /\ [][ParserNext]_vars

\* ------------------------------------------- the price stream on its own
\* BinanceWebSocketManager.__init__: _max_reconnect_attempts, _reconnect_delay
max_reconnect_attempts == 10
reconnect_delay == 5

\* what a frame of the stream holds: a ticker with the close price 'c', or text
\* that json.loads or float() rejects
Frames == {"ticker", "garbage"}

\* _websocket_loop, `except Exception`: self._reconnect_attempts += 1
AttemptsAfterFailure(attempts) == attempts + 1

\* _websocket_loop, `except Exception` while the stream is running: sleep the
\* reconnect delay up to max_reconnect_attempts failures, then break.
AfterFailure(attempts) ==
    IF attempts <= max_reconnect_attempts THEN "sleep" ELSE "ended"

\* _websocket_loop's `except Exception` handler, entered from conn_pc
OnException ==
    /\ dropped' = TRUE
    /\ waited' = 0
    /\ IF ws_running
       THEN /\ reconnect_attempts' = AttemptsAfterFailure(reconnect_attempts)
            /\ conn_pc' = AfterFailure(AttemptsAfterFailure(reconnect_attempts))
       ELSE /\ conn_pc' = "connect"
            /\ UNCHANGED reconnect_attempts

StreamUnchanged ==
    UNCHANGED <<strategy, trading_enabled, last_action, pc, signal, nsignals,
                current_position, calls, result, prev_result, ExchangeVars,
                MonitorVars, SignalVars, ws_loop, fetch_failed, mon, nmon, rdr,
                rdr_order, TickVars, FilterVars, RetryVars, TickObsVars, ParserVars,
                HealthVars, RestartVars,
                NestedVars,
                   ReloadVars,
                   NormVars>>

\* BinanceWebSocketManager.start(symbol) when no stream is running: the flag is
\* set and the thread running _websocket_loop is started.
stream_start ==
    /\ ~ws_running
    /\ conn_pc \in {None, "ended"}
    /\ ws_running' = TRUE
    /\ conn_pc' = "connect"
    /\ connects_since_tick' = 0
    /\ dropped' = FALSE
    /\ waited' = 0
    /\ UNCHANGED <<reconnect_attempts, last_update, nticks, reconnected_undelayed>>
    /\ StreamUnchanged

\* BinanceWebSocketManager.stop(): the flag is cleared, then _reset_state
stream_stop ==
    /\ ws_running
    /\ ws_running' = FALSE
    /\ last_update' = FALSE
    /\ reconnect_attempts' = 0
    /\ UNCHANGED <<conn_pc, connects_since_tick, dropped, waited, nticks,
                   reconnected_undelayed>>
    /\ StreamUnchanged

\* _websocket_loop: `while self._is_running` is true and _connect_and_listen
\* calls websockets.connect, which returns a connection (ok) or raises.
_connect_and_listen(ok) ==
    /\ conn_pc = "connect"
    /\ ws_running
    /\ connects_since_tick < MaxConnects
    /\ connects_since_tick' = connects_since_tick + 1
    /\ reconnected_undelayed' = (reconnected_undelayed \/ (dropped /\ waited = 0))
    /\ IF ok
       THEN /\ reconnect_attempts' = 0
            /\ conn_pc' = "listen"
            /\ dropped' = FALSE
            /\ waited' = 0
       ELSE OnException
    /\ UNCHANGED <<ws_running, last_update, nticks>>
    /\ StreamUnchanged

\* `async for message in websocket` yields a frame: _process_message stores
\* the price of a ticker and swallows the error of anything else.
_process_message(frame) ==
    /\ conn_pc = "listen"
    /\ ws_running
    /\ nticks < MaxTicks
    /\ IF frame = "ticker"
       THEN /\ last_update' = TRUE
            /\ nticks' = nticks + 1
            /\ connects_since_tick' = 0
       ELSE UNCHANGED <<last_update, nticks, connects_since_tick>>
    /\ UNCHANGED <<ws_running, conn_pc, reconnect_attempts, dropped, waited,
                   reconnected_undelayed>>
    /\ StreamUnchanged

\* The server closes the connection with a normal close frame: `async for`
\* ends without an exception, _connect_and_listen returns and the loop tests
\* its condition again.
ConnectionClosedOK ==
    /\ conn_pc = "listen"
    /\ conn_pc' = "connect"
    /\ dropped' = TRUE
    /\ waited' = 0
    /\ UNCHANGED <<ws_running, last_update, nticks, reconnect_attempts,
                   connects_since_tick, reconnected_undelayed>>
    /\ StreamUnchanged

\* The connection breaks: `async for` raises ConnectionClosedError.
ConnectionClosedError ==
    /\ conn_pc = "listen"
    /\ OnException
    /\ UNCHANGED <<ws_running, last_update, nticks, connects_since_tick,
                   reconnected_undelayed>>
    /\ StreamUnchanged

\* `await asyncio.sleep(self._reconnect_delay)` returns
ReconnectSleep ==
    /\ conn_pc = "sleep"
    /\ conn_pc' = "connect"
    /\ waited' = waited + reconnect_delay
    /\ UNCHANGED <<ws_running, last_update, nticks, reconnect_attempts,
                   connects_since_tick, dropped, reconnected_undelayed>>
    /\ StreamUnchanged

\* `while self._is_running` (or `if not self._is_running: break` on a frame)
\* finds the flag cleared: the loop and its thread end.
LoopExit ==
    /\ conn_pc \in {"connect", "listen"}
    /\ ~ws_running
    /\ conn_pc' = "ended"
    /\ UNCHANGED <<ws_running, last_update, nticks, reconnect_attempts,
                   connects_since_tick, dropped, waited, reconnected_undelayed>>
    /\ StreamUnchanged

StreamInit ==
    /\ MainIdle
    /\ FilterIdle
    /\ RetryIdle
    /\ TickIdle
    /\ NormIdle
    /\ ReloadIdle
    /\ NestedIdle
    /\ RestartIdle
    /\ HealthIdle
    /\ ConnIdle
    /\ ParserIdle

StreamNext ==
    \/ stream_start
    \/ stream_stop
    \/ \E ok \in BOOLEAN : _connect_and_listen(ok)
    \/ \E frame \in Frames : _process_message(frame)
    \/ ConnectionClosedOK
    \/ ConnectionClosedError
    \/ ReconnectSleep
    \/ LoopExit

StreamSpec == StreamInit /\ [][StreamNext]_vars

\* ----------------------------------------- the health monitor on its own
\* HealthMonitor.__init__: the limits
max_memory_mb == 500
max_uptime_hours == 24
max_self_test_failures == 3
max_consecutive_failures == 3

\* what psutil reports for the process, in MB
MemoryReadings == {400, 501, 1000, 1001}
\* seconds since start_time when a check runs
UptimeReadings == {3600, 86400, 86401}
\* whether _should_perform_self_test holds and how _perform_self_test ends
SelfTests == {"skip", "ok", "fail"}

\* _perform_self_test: the counter is reset on success and counted up on any
\* exception; a check that skips the self-test leaves it.
SelfTestFailuresAfter(failures, selftest) ==
    IF selftest = "ok" THEN 0
    ELSE IF selftest = "fail" THEN failures + 1
    ELSE failures

\* Mutant: get_health_status without the consecutive_failures problem.
Unhealthy_without_counter(memory_mb, uptime_seconds, test_failures, failures) ==
    \/ memory_mb > max_memory_mb
    \/ uptime_seconds > max_uptime_hours * 3600
    \/ test_failures >= max_self_test_failures

\* get_health_status: `problems` is not empty
Unhealthy(memory_mb, uptime_seconds, test_failures, failures) ==
    \/ memory_mb > max_memory_mb
    \/ uptime_seconds > max_uptime_hours * 3600
    \/ test_failures >= max_self_test_failures
    \/ failures >= max_consecutive_failures

\* HealthMonitor._should_restart(status): any(critical_conditions)
_should_restart(memory_mb, uptime_seconds, test_failures, failures) ==
    \/ failures >= max_consecutive_failures
    \/ memory_mb > max_memory_mb * 2
    \/ uptime_seconds > max_uptime_hours * 3600
    \/ test_failures >= max_self_test_failures

HealthUnchanged ==
    UNCHANGED <<MainVars, FilterVars, RetryVars, TickObsVars, ParserVars, ConnVars,
                RestartVars,
                NestedVars,
                   ReloadVars,
                   NormVars>>

\* HealthMonitor.start_monitoring() while is_monitoring is False
health_start_monitoring ==
    /\ ~health_monitoring
    /\ health_starts < MaxHealthStarts
    /\ health_monitoring' = TRUE
    /\ health_starts' = health_starts + 1
    /\ health_thread' = [health_thread EXCEPT ![health_starts + 1] = "test"]
    /\ UNCHANGED <<self_tested, self_test_failures, consecutive_failures,
                   health_uptime, health_check_count, health_tick, restart_calls>>
    /\ HealthUnchanged

\* HealthMonitor.stop_monitoring(): the flag is cleared; join(timeout=5) returns
\* whether or not the thread has ended.
health_stop_monitoring ==
    /\ health_monitoring
    /\ health_monitoring' = FALSE
    /\ UNCHANGED <<health_thread, health_starts, self_tested, self_test_failures,
                   consecutive_failures, health_uptime, health_check_count,
                   health_tick, restart_calls>>
    /\ HealthUnchanged

\* HealthMonitor.record_request() after failed checks
record_request ==
    /\ consecutive_failures > 0
    /\ consecutive_failures' = 0
    /\ UNCHANGED <<health_monitoring, health_thread, health_starts, self_tested,
                   self_test_failures, health_uptime, health_check_count,
                   health_tick, restart_calls>>
    /\ HealthUnchanged

\* _monitoring_loop finds is_monitoring set and runs _perform_health_check:
\* the self-test when it is due, get_health_status (which may raise), the
\* count of an unhealthy check, and _trigger_restart when _should_restart.
_perform_health_check(t, memory_mb, uptime_seconds, selftest, raises) ==
    /\ health_thread[t] = "test"
    /\ health_monitoring
    /\ health_check_count < MaxHealthChecks
    /\ uptime_seconds >= health_uptime
    /\ selftest = "skip" => self_tested
    /\ LET test_failures == SelfTestFailuresAfter(self_test_failures, selftest)
           unhealthy == Unhealthy(memory_mb, uptime_seconds, test_failures,
                                  consecutive_failures)
           failures == IF raises \/ unhealthy THEN consecutive_failures + 1 ELSE 0
           restart == /\ ~raises
                      /\ unhealthy
                      /\ _should_restart(memory_mb, uptime_seconds, test_failures,
                                         failures)
       IN  /\ health_check_count' = health_check_count + 1
           /\ health_uptime' = uptime_seconds
           /\ self_tested' = (self_tested \/ selftest # "skip")
           /\ self_test_failures' = test_failures
           /\ consecutive_failures' = failures
           /\ health_monitoring' = (health_monitoring /\ ~restart)
           /\ restart_calls' = IF restart THEN restart_calls + 1 ELSE restart_calls
           /\ health_tick' = <<[memory_mb |-> memory_mb,
                                uptime_seconds |-> uptime_seconds,
                                self_test_failures |-> test_failures,
                                consecutive_failures |-> failures,
                                raised |-> raises,
                                unhealthy |-> (~raises /\ unhealthy),
                                restart |-> restart]>>
    /\ health_thread' = [health_thread EXCEPT ![t] = "sleep"]
    /\ UNCHANGED health_starts
    /\ HealthUnchanged

\* time.sleep(self.health_check_interval) returns
HealthSleep(t) ==
    /\ health_thread[t] = "sleep"
    /\ health_thread' = [health_thread EXCEPT ![t] = "test"]
    /\ UNCHANGED <<health_monitoring, health_starts, self_tested, self_test_failures,
                   consecutive_failures, health_uptime, health_check_count,
                   health_tick, restart_calls>>
    /\ HealthUnchanged

\* `while self.is_monitoring` finds the flag cleared: the thread ends.
HealthLoopExit(t) ==
    /\ health_thread[t] = "test"
    /\ ~health_monitoring
    /\ health_thread' = [health_thread EXCEPT ![t] = "ended"]
    /\ UNCHANGED <<health_monitoring, health_starts, self_tested, self_test_failures,
                   consecutive_failures, health_uptime, health_check_count,
                   health_tick, restart_calls>>
    /\ HealthUnchanged

HealthInit ==
    /\ MainIdle
    /\ FilterIdle
    /\ RetryIdle
    /\ TickIdle
    /\ NormIdle
    /\ ReloadIdle
    /\ NestedIdle
    /\ RestartIdle
    /\ HealthIdle
    /\ ConnIdle
    /\ ParserIdle

HealthNext ==
    \/ health_start_monitoring
    \/ health_stop_monitoring
    \/ record_request
    \/ \E t \in HealthThreads, memory_mb \in MemoryReadings,
          uptime_seconds \in UptimeReadings, selftest \in SelfTests,
          raises \in BOOLEAN :
            _perform_health_check(t, memory_mb, uptime_seconds, selftest, raises)
    \/ \E t \in HealthThreads : HealthSleep(t)
    \/ \E t \in HealthThreads : HealthLoopExit(t)

HealthSpec == HealthInit /\ [][HealthNext]_vars

\* A started _monitoring_loop thread wakes from its sleep and tests the flag.
HealthFairness ==
    \A t \in HealthThreads :
        /\ WF_vars(HealthSleep(t))
        /\ WF_vars(HealthLoopExit(t))

HealthLiveSpec == HealthInit /\ [][HealthNext]_vars /\ HealthFairness

\* ---------------------------------------- the restart manager on its own
\* RestartManager.__init__: restart_delay
restart_delay == 3

RestartUnchanged ==
    UNCHANGED <<MainVars, FilterVars, RetryVars, TickObsVars, ParserVars, ConnVars,
                HealthVars,
                NestedVars,
                   ReloadVars,
                   NormVars>>

\* request_restart: `if self.restart_requested: ... return`
RequestIgnored(requested) == requested

\* Mutant: a failed os.execv ends the thread only.
AfterExecv_no_exit(ok) == IF ok THEN "reexecuted" ELSE "ended"

\* _perform_restart: os.execv replaces the process image, or raises and the
\* handler goes on to os._exit(1).
AfterExecv(ok) == IF ok THEN "reexecuted" ELSE "exit"

\* request_restart(reason), the test of restart_requested by caller c; the
\* flag is read here and written in a later step, no lock is held.
request_restart(c) ==
    /\ process = "running"
    /\ request_pc[c] = "idle"
    /\ requests_made < MaxRequests
    /\ requests_made' = requests_made + 1
    /\ IF RequestIgnored(restart_requested)
       THEN /\ requests_ignored' = requests_ignored + 1
            /\ UNCHANGED request_pc
       ELSE /\ request_pc' = [request_pc EXCEPT ![c] = "set"]
            /\ UNCHANGED requests_ignored
    /\ UNCHANGED <<restart_requested, restart_thread, restart_threads, execv_calls,
                   process>>
    /\ RestartUnchanged

\* request_restart, past the test: the flag is set and RestartThread started
request_restart_start(c) ==
    /\ process = "running"
    /\ request_pc[c] = "set"
    /\ restart_requested' = TRUE
    /\ restart_threads' = restart_threads + 1
    /\ restart_thread' = [restart_thread EXCEPT ![restart_threads + 1] = "sleep"]
    /\ request_pc' = [request_pc EXCEPT ![c] = "idle"]
    /\ UNCHANGED <<requests_made, requests_ignored, execv_calls, process>>
    /\ RestartUnchanged

\* _perform_restart: time.sleep(self.restart_delay) returns
RestartDelay(k) ==
    /\ process = "running"
    /\ restart_thread[k] = "sleep"
    /\ restart_thread' = [restart_thread EXCEPT ![k] = "execv"]
    /\ UNCHANGED <<restart_requested, request_pc, requests_made, requests_ignored,
                   restart_threads, execv_calls, process>>
    /\ RestartUnchanged

\* _perform_restart: os.execv(python_executable, ...)
RestartExecv(k, ok) ==
    /\ process = "running"
    /\ restart_thread[k] = "execv"
    /\ execv_calls' = execv_calls + 1
    /\ IF AfterExecv(ok) = "reexecuted"
       THEN /\ process' = "reexecuted"
            /\ UNCHANGED restart_thread
       ELSE /\ restart_thread' = [restart_thread EXCEPT ![k] = AfterExecv(ok)]
            /\ UNCHANGED process
    /\ UNCHANGED <<restart_requested, request_pc, requests_made, requests_ignored,
                   restart_threads>>
    /\ RestartUnchanged

\* _perform_restart, `except Exception`: os._exit(1)
RestartForceExit(k) ==
    /\ process = "running"
    /\ restart_thread[k] = "exit"
    /\ process' = "exited"
    /\ UNCHANGED <<restart_requested, request_pc, requests_made, requests_ignored,
                   restart_thread, restart_threads, execv_calls>>
    /\ RestartUnchanged

RestartInit ==
    /\ MainIdle
    /\ FilterIdle
    /\ RetryIdle
    /\ TickIdle
    /\ NormIdle
    /\ ReloadIdle
    /\ NestedIdle
    /\ RestartIdle
    /\ HealthIdle
    /\ ConnIdle
    /\ ParserIdle

RestartNext ==
    \/ \E c \in RestartCallers : request_restart(c)
    \/ \E c \in RestartCallers : request_restart_start(c)
    \/ \E k \in RestartThreads : RestartDelay(k)
    \/ \E k \in RestartThreads, ok \in BOOLEAN : RestartExecv(k, ok)
    \/ \E k \in RestartThreads : RestartForceExit(k)

RestartSpec == RestartInit /\ [][RestartNext]_vars

\* RestartThread is a started thread: its sleep ends, its os.execv is called
\* and a raised exception reaches os._exit.
RestartFairness ==
    \A k \in RestartThreads :
        /\ WF_vars(RestartDelay(k))
        /\ WF_vars(\E ok \in BOOLEAN : RestartExecv(k, ok))
        /\ WF_vars(RestartForceExit(k))

RestartLiveSpec == RestartInit /\ [][RestartNext]_vars /\ RestartFairness

\* --------------------------------------------- nested retries on their own
\* retry_on_api_error(max_retries=3, delay=10): every use is @retry_on_api_error()
default_max_retries == 3

\* the retry-wrapped client methods that call retry-wrapped queries
NestedOps == {"close_position", "_open_position"}

\* the wrapped queries a method calls before it submits its order, in order
InnerQueries(op) ==
    IF op = "close_position" THEN <<"get_current_position">>
    ELSE <<"get_current_price", "get_account_balance">>

NestedUnchanged ==
    UNCHANGED <<MainVars, FilterVars, RetryVars, TickObsVars, ParserVars, ConnVars,
                HealthVars, RestartVars,
                   ReloadVars,
                   NormVars>>

\* an exception reaches the `except Exception` of the method's own wrapper
OuterFailure ==
    nested_pc' = IF SleepsAfterFailure(outer_attempt, default_max_retries)
                 THEN "outer_sleep" ELSE "outer_next"

\* The wrapper of the query invokes it once: the remote call returns (the
\* method goes on to its next query or to its order) or raises.
InnerInvoke(ok) ==
    LET q == InnerQueries(nested_op)[inner_index]
    IN  /\ nested_pc = "inner_call"
        /\ remote_calls' = [remote_calls EXCEPT ![q] = @ + 1]
        /\ IF ok
           THEN /\ UNCHANGED remote_raises
                /\ inner_attempt' = 0
                /\ IF inner_index < Len(InnerQueries(nested_op))
                   THEN /\ inner_index' = inner_index + 1
                        /\ nested_pc' = "inner_call"
                   ELSE /\ nested_pc' = "order"
                        /\ UNCHANGED inner_index
           ELSE /\ remote_raises' = [remote_raises EXCEPT ![q] = @ + 1]
                /\ nested_pc' = IF SleepsAfterFailure(inner_attempt, default_max_retries)
                                THEN "inner_sleep" ELSE "inner_next"
                /\ UNCHANGED <<inner_attempt, inner_index>>
        /\ UNCHANGED <<nested_op, outer_attempt, order_raises, nested_sleeps>>
        /\ NestedUnchanged

\* time.sleep(delay) in the wrapper of the query
InnerSleep ==
    /\ nested_pc = "inner_sleep"
    /\ nested_sleeps' = nested_sleeps + 1
    /\ nested_pc' = "inner_next"
    /\ UNCHANGED <<nested_op, outer_attempt, inner_attempt, inner_index,
                   remote_calls, remote_raises, order_raises>>
    /\ NestedUnchanged

\* The for statement of the query's wrapper: the next attempt, or `raise
\* last_exception` into the method, whose own wrapper catches it.
InnerNext ==
    /\ nested_pc = "inner_next"
    /\ IF RangeHasNext(inner_attempt, default_max_retries)
       THEN /\ inner_attempt' = inner_attempt + 1
            /\ nested_pc' = "inner_call"
       ELSE /\ OuterFailure
            /\ UNCHANGED inner_attempt
    /\ UNCHANGED <<nested_op, outer_attempt, inner_index, remote_calls,
                   remote_raises, order_raises, nested_sleeps>>
    /\ NestedUnchanged

\* The rest of the method once its queries have returned: it returns True or
\* False ("returned"), or futures_create_order raises.
SubmitOrder(res) ==
    /\ nested_pc = "order"
    /\ IF res = "raise"
       THEN /\ order_raises' = order_raises + 1
            /\ OuterFailure
       ELSE /\ nested_pc' = "returned"
            /\ UNCHANGED order_raises
    /\ UNCHANGED <<nested_op, outer_attempt, inner_attempt, inner_index,
                   remote_calls, remote_raises, nested_sleeps>>
    /\ NestedUnchanged

\* time.sleep(delay) in the wrapper of the method
OuterSleep ==
    /\ nested_pc = "outer_sleep"
    /\ nested_sleeps' = nested_sleeps + 1
    /\ nested_pc' = "outer_next"
    /\ UNCHANGED <<nested_op, outer_attempt, inner_attempt, inner_index,
                   remote_calls, remote_raises, order_raises>>
    /\ NestedUnchanged

\* The for statement of the method's wrapper: the method is called again from
\* its first line, or `raise last_exception` reaches the strategy.
OuterNext ==
    /\ nested_pc = "outer_next"
    /\ IF RangeHasNext(outer_attempt, default_max_retries)
       THEN /\ outer_attempt' = outer_attempt + 1
            /\ inner_attempt' = 0
            /\ inner_index' = 1
            /\ nested_pc' = "inner_call"
       ELSE /\ nested_pc' = "raised"
            /\ UNCHANGED <<outer_attempt, inner_attempt, inner_index>>
    /\ UNCHANGED <<nested_op, remote_calls, remote_raises, order_raises,
                   nested_sleeps>>
    /\ NestedUnchanged

\* the strategy calls exchange.close_position or an open method
NestedInit ==
    /\ MainIdle
    /\ FilterIdle
    /\ RetryIdle
    /\ TickIdle
    /\ NormIdle
    /\ ReloadIdle
    /\ RestartIdle
    /\ HealthIdle
    /\ ConnIdle
    /\ ParserIdle
    /\ nested_op \in NestedOps
    /\ nested_pc = "inner_call"
    /\ outer_attempt = 0
    /\ inner_attempt = 0
    /\ inner_index = 1
    /\ remote_calls = [q \in Queries |-> 0]
    /\ remote_raises = [q \in Queries |-> 0]
    /\ order_raises = 0
    /\ nested_sleeps = 0

NestedNext ==
    \/ \E ok \in BOOLEAN : InnerInvoke(ok)
    \/ InnerSleep
    \/ InnerNext
    \/ \E res \in {"true", "false", "raise"} : SubmitOrder(res)
    \/ OuterSleep
    \/ OuterNext

NestedRetrySpec == NestedInit /\ [][NestedNext]_vars

\* ------------------------------------------- normalize_symbol on its own
\* the characters symbols are made of here: a letter that is not in the
\* suffix, and the two characters of the suffix
SymbolChars == {"T", "P", "."}

RECURSIVE SymbolsOfLen(_)
SymbolsOfLen(n) ==
    IF n = 0 THEN {<<>>}
    ELSE {Append(w, c) : w \in SymbolsOfLen(n - 1), c \in SymbolChars}

SymbolStrings == UNION {SymbolsOfLen(n) : n \in 0..MaxSymbolLen}

\* the market-type suffix '.P'
PerpSuffix == <<".", "P">>

\* str.endswith(suffix)
endswith(str, suffix) ==
    /\ Len(str) >= Len(suffix)
    /\ SubSeq(str, Len(str) - Len(suffix) + 1, Len(str)) = suffix

\* str.rstrip(chars): every trailing character that is in chars is removed
RECURSIVE rstrip(_, _)
rstrip(str, chars) ==
    IF str # <<>> /\ str[Len(str)] \in chars
    THEN rstrip(SubSeq(str, 1, Len(str) - 1), chars)
    ELSE str

\* BaseExchange.normalize_symbol:
\* `symbol.rstrip('.P') if symbol.endswith('.P') else symbol`
normalize_symbol(sym) ==
    IF endswith(sym, PerpSuffix) THEN rstrip(sym, {".", "P"}) ELSE sym

NormUnchanged ==
    UNCHANGED <<MainVars, FilterVars, RetryVars, TickObsVars, ParserVars, ConnVars,
                HealthVars, RestartVars, NestedVars, ReloadVars>>

\* normalize_symbol(symbol)
normalize_symbol_call ==
    /\ norm_pc = "call"
    /\ norm_result' = normalize_symbol(norm_symbol)
    /\ norm_pc' = "again"
    /\ UNCHANGED <<norm_symbol, norm_twice>>
    /\ NormUnchanged

\* normalize_symbol of what it returned (extract_quote_currency normalizes the
\* symbol the strategy may have normalized already)
normalize_symbol_again ==
    /\ norm_pc = "again"
    /\ norm_twice' = normalize_symbol(norm_result)
    /\ norm_pc' = "done"
    /\ UNCHANGED <<norm_symbol, norm_result>>
    /\ NormUnchanged

NormInit ==
    /\ MainIdle
    /\ FilterIdle
    /\ RetryIdle
    /\ TickIdle
    /\ ReloadIdle
    /\ NestedIdle
    /\ RestartIdle
    /\ HealthIdle
    /\ ConnIdle
    /\ ParserIdle
    /\ norm_pc = "call"
    /\ norm_symbol \in SymbolStrings
    /\ norm_result = <<>>
    /\ norm_twice = <<>>

NormNext ==
    \/ normalize_symbol_call
    \/ normalize_symbol_again

NormSpec == NormInit /\ [][NormNext]_vars

\* ------------------------------------------ retry_on_api_error on its own
\* wrapper() is entered: last_exception = None, the loop starts at attempt 0.
RetryInit ==
    /\ MainIdle
    /\ FilterIdle
    /\ TickIdle
    /\ NormIdle
    /\ ReloadIdle
    /\ NestedIdle
    /\ RestartIdle
    /\ HealthIdle
    /\ ConnIdle
    /\ ParserIdle
    /\ retry_max \in 1..MaxRetries
    /\ retry_delay \in Delays
    /\ retry_pc = "call"
    /\ retry_attempt = 0
    /\ last_exception = None
    /\ retry_invocations = <<>>
    /\ retry_sleeps = <<>>
    /\ retry_outcome = None

\* try: return func(*args, **kwargs) / except Exception as e: last_exception = e
RetryInvoke ==
    /\ retry_pc = "call"
    /\ \/ \E v \in ReturnValues :
            /\ retry_invocations' = Append(retry_invocations, [returned |-> v])
            /\ retry_outcome' = [returned |-> v]
            /\ retry_pc' = "returned"
            /\ UNCHANGED last_exception
       \/ \E kind \in ExceptionKinds :
            LET e == RaisedBy(kind, Len(retry_invocations) + 1)
            IN /\ retry_invocations' = Append(retry_invocations, [raised |-> e])
               /\ last_exception' = e
               /\ retry_pc' = IF SleepsAfterFailure(retry_attempt, retry_max)
                              THEN "sleep" ELSE "next"
               /\ UNCHANGED retry_outcome
    /\ UNCHANGED <<MainVars, FilterVars, TickObsVars, ParserVars, retry_max, retry_delay, retry_attempt,
                   retry_sleeps,
                   ConnVars,
                   HealthVars,
                   RestartVars,
                   NestedVars,
                   ReloadVars,
                   NormVars>>

\* time.sleep(delay)
RetrySleep ==
    /\ retry_pc = "sleep"
    /\ retry_sleeps' = Append(retry_sleeps, retry_delay)
    /\ retry_pc' = "next"
    /\ UNCHANGED <<MainVars, FilterVars, TickObsVars, ParserVars, retry_max, retry_delay, retry_attempt,
                   last_exception, retry_invocations, retry_outcome,
                   ConnVars,
                   HealthVars,
                   RestartVars,
                   NestedVars,
                   ReloadVars,
                   NormVars>>

\* The for statement takes the next attempt, or the loop is exhausted and
\* `raise last_exception` leaves the wrapper.
RetryNext ==
    /\ retry_pc = "next"
    /\ IF RangeHasNext(retry_attempt, retry_max)
       THEN /\ retry_attempt' = retry_attempt + 1
            /\ retry_pc' = "call"
            /\ UNCHANGED retry_outcome
       ELSE /\ retry_outcome' = [raised |-> last_exception]
            /\ retry_pc' = "raised"
            /\ UNCHANGED retry_attempt
    /\ UNCHANGED <<MainVars, FilterVars, TickObsVars, ParserVars, retry_max, retry_delay, last_exception,
                   retry_invocations, retry_sleeps,
                   ConnVars,
                   HealthVars,
                   RestartVars,
                   NestedVars,
                   ReloadVars,
                   NormVars>>

RetryNextStep == RetryInvoke \/ RetrySleep \/ RetryNext

RetrySpec == RetryInit /\ [][RetryNextStep]_vars

\* ------------------------------------------------ observations used by the claims
CallIdx(op) == {i \in 1..Len(calls) : calls[i].op = op}
Called(op) == CallIdx(op) # {}
OpenIdx == CallIdx("open_long_position") \cup CallIdx("open_short_position")
CloseIdx == CallIdx("close_position")
\* process_signal has returned for the signal in `calls`
Returned == pc = "idle" /\ result \in {"success", "error"}
\* what get_current_position returned to process_signal for this signal
SeenPosition(side) ==
    \E i \in CallIdx("get_current_position") : calls[i].res = side
SeenSameDirection ==
    \E side \in Sides : SeenPosition(side) /\ SameDirection(signal, side)
SeenOpposite ==
    \E side \in Sides : SeenPosition(side) /\ ~SameDirection(signal, side)
\* the open call the signal's direction asks for
ExpectedOpen == IF signal = "buy" THEN "open_long_position" ELSE "open_short_position"
IsSL == strategy = "PivotReversalSLStrategy"
\* monitor threads that can still fetch the position, start the stream or spin
LiveMonitors == {t \in Threads : mon[t] \in {"fetch", "ws_start", "loop"}}

\* C1: at most one monitor thread of a PositionMonitor is alive at any time.
C1_AtMostOneMonitorThread == Cardinality(LiveMonitors) <= 1

\* C2: at most one stop order submitted by the monitor rests on the exchange.
C2_AtMostOneRestingStop == Cardinality(ex_orders) <= 1

\* C3: when process_signal began with a monitor active, every position query,
\* close, balance query, open and start_monitoring of that signal comes after
\* websocket_manager.stop() and, if a stop order id was recorded, after
\* futures_cancel_order.
C3_StopBeforeReconcile ==
    (IsSL /\ sig_monitoring) =>
        \A j \in 1..Len(calls) :
            calls[j].op \notin {"ws_stop", "futures_cancel_order"} =>
                /\ \E i \in 1..(j - 1) : calls[i].op = "ws_stop"
                /\ sig_stop_id # 0 =>
                      \E i \in 1..(j - 1) : calls[i].op = "futures_cancel_order"
C3_Witness ==
    /\ IsSL /\ sig_monitoring /\ sig_stop_id # 0
    /\ Called("futures_cancel_order")
    /\ Called("get_current_position")
    /\ Called("start_monitoring")

\* C4 (as stated): one monitoring session submits a stop order at most once.
C4_SingleSubmissionPerSession == session_submits <= 1
\* C4 (amended): a tick handled while a stop order id is recorded submits and
\* cancels nothing and leaves the id alone.
C4_NoOrderActionOnceRecorded ==
    [][(nticks' # nticks /\ stop_loss_order_id # 0) =>
          /\ session_submits' = session_submits
          /\ ex_orders' = ex_orders
          /\ next_order_id' = next_order_id
          /\ stop_loss_order_id' = stop_loss_order_id]_vars
C4_Witness ==
    /\ is_monitoring /\ stop_loss_order_id # 0
    /\ held_ticks >= 1 /\ session_submits = 1

\* C5: for a signal opposite to the existing position every open call comes
\* after a close_position call, and once process_signal has returned
\* close_position has been called.
C5_CloseBeforeOpen ==
    SeenOpposite =>
        /\ \A j \in OpenIdx : \E i \in CloseIdx : i < j
        /\ Returned => CloseIdx # {}
C5_Witness ==
    /\ SeenOpposite /\ Returned
    /\ OpenIdx # {} /\ CloseIdx # {}

C7_AlwaysOpens ==
    (SeenPosition(None) /\ Returned) => Called(ExpectedOpen)
\* C7 (amended): with no position there is never a close_position nor the
\* opposite open, and the open of the signal's direction is called whenever the
\* balance query returned at least position_size.
C7_OpensSignalDirection ==
    SeenPosition(None) =>
        /\ CloseIdx = {}
        /\ \A j \in OpenIdx : calls[j].op = ExpectedOpen
        /\ (Returned /\ \E i \in CallIdx("get_account_balance") :
                calls[i].res = "ok" /\ calls[i].val >= position_size)
              => Called(ExpectedOpen)
C7_Witness ==
    /\ SeenPosition(None) /\ Returned /\ signal = "buy"
    /\ Called("open_long_position")

\* C8: with no position and a balance below position_size process_signal
\* reports failure with no open or close call and one balance query; a balance
\* equal to position_size leads to the open call.
C8_InsufficientBalance ==
    (SeenPosition(None) /\ Returned) =>
        \A i \in CallIdx("get_account_balance") :
            /\ (calls[i].res = "ok" /\ calls[i].val < position_size) =>
                  /\ result = "error"
                  /\ OpenIdx = {} /\ CloseIdx = {}
                  /\ Cardinality(CallIdx("get_account_balance")) = 1
            /\ (calls[i].res = "ok" /\ calls[i].val = position_size) =>
                  OpenIdx # {}
C8_Witness ==
    /\ SeenPosition(None) /\ Returned /\ result = "error"
    /\ \E i \in CallIdx("get_account_balance") : calls[i].val = 50

\* C9: a failed close_position ends the signal in failure with no open call, a
\* failed open ends it in failure, and close_position and the open are each
\* issued at most once per signal.
C9_ReversalFailsOnce ==
    /\ Cardinality(CloseIdx) <= 1
    /\ Cardinality(OpenIdx) <= 1
    /\ (\E i \in CloseIdx : calls[i].res # "true") =>
          /\ OpenIdx = {}
          /\ pc = "idle" /\ result = "error"
    /\ (\E j \in OpenIdx : calls[j].res # "true") =>
          (pc = "idle" /\ result = "error")
C9_Witness ==
    /\ SeenOpposite /\ Returned
    /\ \E i \in CloseIdx : calls[i].res = "true"
    /\ \E j \in OpenIdx : calls[j].res = "raise"

\* C10: PivotReversalSLStrategy calls start_monitoring exactly when the open call
\* returned True, and after process_signal returned False no monitoring session
\* is active.
C10_MonitorFollowsOpen ==
    IsSL =>
        /\ \A j \in CallIdx("start_monitoring") :
              \E i \in OpenIdx : i < j /\ calls[i].res = "true"
        /\ Returned =>
              /\ (\E i \in OpenIdx : calls[i].res = "true")
                    => Called("start_monitoring")
              /\ result = "error" => ~is_monitoring
C10_Witness ==
    /\ IsSL /\ Returned /\ result = "error"
    /\ sig_monitoring /\ ex_position # None /\ ~is_monitoring

\* ------------------------------------------------- the duplicate filter claims
FilterIdx == 1..Len(filter_signals)
\* the signals should_process accepted
AcceptedIdx == {i \in FilterIdx : filter_accepted[i]}
\* the last of them
LastAcceptedIdx == CHOOSE i \in AcceptedIdx : \A j \in AcceptedIdx : j <= i

\* C11: of the signals given to should_process, a signal is accepted exactly
\* when it is the first one or its action differs from the action of the signal
\* before it.
C11_AcceptedIffFirstOrDiffers ==
    /\ Len(filter_accepted) = Len(filter_signals)
    /\ \A i \in FilterIdx :
          filter_accepted[i] =
              (i = 1 \/ filter_signals[i].action # filter_signals[i - 1].action)
C11_Witness ==
    /\ Len(filter_signals) = 3
    /\ filter_signals[1].action = "buy"
    /\ filter_signals[2].action = "buy"
    /\ filter_signals[3].action = "sell"
    /\ filter_accepted = <<TRUE, FALSE, TRUE>>

\* C12: last_action is the action of the most recently accepted signal and None
\* only before the first signal; a call that rejects leaves it unchanged; and
\* the answer to a call is a function of last_action and signal.action alone.
C12_LastActionIsLastAccepted ==
    /\ [](IF AcceptedIdx = {} THEN last_action = None /\ filter_signals = <<>>
          ELSE last_action = filter_signals[LastAcceptedIdx].action)
    /\ [][Len(filter_signals') = Len(filter_signals) + 1 =>
            LET n == Len(filter_signals')
                s == filter_signals'[n]
            IN /\ filter_accepted'[n] = (last_action = None \/ last_action # s.action)
               /\ ~filter_accepted'[n] => last_action' = last_action]_vars
C12_Witness ==
    /\ Len(filter_signals) = 3
    /\ filter_accepted = <<TRUE, FALSE, TRUE>>
    /\ filter_signals[2].symbol # filter_signals[1].symbol
    /\ filter_signals[2].timeframe # filter_signals[1].timeframe
    /\ last_action = filter_signals[3].action

\* C13: while process_signal runs and after it has returned, whatever it
\* returned, last_action is the action of that signal; and a webhook that repeats
\* the action of a signal whose processing ended in error is answered 'ignored',
\* issues no call and leaves the exchange and the filter as they were.
C13_FilterKeptOnFailure ==
    /\ []((pc # "idle" \/ Returned) => last_action = signal)
    /\ [][(nsignals' = nsignals + 1 /\ result = "error" /\ signal' = signal) =>
            /\ result' = "ignored"
            /\ pc' = "idle"
            /\ calls' = <<>>
            /\ UNCHANGED <<last_action, ExchangeVars, MonitorVars>>]_vars
C13_Witness ==
    /\ prev_result = "error" /\ result = "ignored"
    /\ pc = "idle" /\ calls = <<>>
    /\ last_action = signal

\* ------------------------------------------------------ the monitor claims
\* stop_monitoring, entered with is_monitoring set, is left in this step: by
\* the exception of websocket_manager.stop() or after _reset_state.
StopMonitoringEnds ==
    \/ pc = "process_signal" /\ IsSL /\ is_monitoring /\ pc' = "idle"
    \/ pc = "stop_monitoring_reset" /\ pc' # pc
StopMonitoringRaised ==
    \E i \in CallIdx("ws_stop") : calls[i].res = "raise"

\* C16 (as stated): stop_monitoring on an active monitor raises nothing and ends
\* with is_monitoring false, the stream not running and symbol, position_data
\* and stop_loss_order_id cleared.
C16_StopMonitoringTearsDown ==
    [][StopMonitoringEnds =>
          /\ ~StopMonitoringRaised'
          /\ ~is_monitoring' /\ ~ws_running'
          /\ ~symbol' /\ position_data' = NoPositionData /\ stop_loss_order_id' = 0]_vars

\* C17: a monitor thread whose fetch failed is in its exit path or ended, has
\* started no reader (so no stream and no stop order of its own), and a monitor
\* thread is started by start_monitoring of process_signal only.
C17_FetchFailureEndsMonitor ==
    /\ [](\A t \in fetch_failed :
            /\ mon[t] \in {"finally", "done"}
            /\ rdr[t] = None /\ rdr_order[t] = 0 /\ ws_loop # t)
    /\ [][(nmon' # nmon \/ \E t \in Threads : mon[t] = None /\ mon'[t] # None) =>
            (pc = "start_monitoring" /\ nmon' = nmon + 1)]_vars
C17_Witness ==
    /\ nmon = 1 /\ fetch_failed = {1} /\ mon[1] = "done"
    /\ rdr[1] = None /\ ex_orders = {} /\ nticks = 0
    /\ is_monitoring /\ pc = "idle" /\ ex_position # None

\* ------------------------------------------------- the price update claims
\* the PnL the claim gives for the last update
ClaimedPnl ==
    IF position_data.side = "Buy"
    THEN (tick_price - position_data.entry_price) * position_data.size
    ELSE (position_data.entry_price - tick_price) * position_data.size
LongExample ==
    /\ position_data = [side |-> "Buy", entry_price |-> 2000, size |-> 1]
    /\ ~tick_had_id

\* C18: an update computes PnL = (price - entry) * size for Buy and
\* (entry - price) * size for Sell, and submits a stop exactly when no id was
\* recorded and PnL * 100 / (entry * size / leverage) >= pnl_threshold_percent;
\* for entry 2000, size 1: 2011 gives PnL 11, 5.5 percent and a submission,
\* 2010 (5 percent) a submission, 2009 none.
C18_PnlAndThreshold ==
    tick_price # 0 =>
        /\ tick_pnl = ClaimedPnl
        /\ (tick_order # <<>>) =
              (~tick_had_id /\ ClaimedPnl * 100 * leverage >=
                                 pnl_threshold_percent * position_data.entry_price
                                                       * position_data.size)
        /\ (LongExample /\ tick_price = 2011) =>
              /\ tick_pnl = 11
              /\ tick_pnl * 100 * leverage * 10 = 55 * 2000
              /\ tick_order # <<>>
        /\ (LongExample /\ tick_price = 2010) => tick_order # <<>>
        /\ (LongExample /\ tick_price = 2009) => tick_order = <<>>
C18_Witness ==
    /\ LongExample /\ tick_price = 2011
    /\ tick_pnl = 11 /\ tick_order # <<>>

\* the stop and limit prices of the claim, in thousandths
ClaimedStop ==
    IF position_data.side = "Buy"
    THEN position_data.entry_price * 1000 + position_data.entry_price * 12
    ELSE position_data.entry_price * 1000 - position_data.entry_price * 12
ClaimedLimit ==
    IF position_data.side = "Buy" THEN ClaimedStop - 1000 ELSE ClaimedStop + 1000
\* `hundredths` is the multiple of 0.01 nearest to `thousandths`
Nearest(hundredths, thousandths) ==
    /\ 10 * hundredths - 5 <= thousandths
    /\ thousandths < 10 * hundredths + 5
SubmittedOrderIsReducing ==
    /\ tick_order[1].reduceOnly
    /\ tick_order[1].quantity = position_data.size
    /\ tick_order[1].side = IF position_data.side = "Buy" THEN "SELL" ELSE "BUY"

\* C19 (as stated): a submitted stop order is reduce-only, of the position's
\* size, on the opposite side, with stop price exactly entry +/- entry * 1.2 / 100
\* and limit exactly stop -/+ 1.
C19_StopOrderExact ==
    tick_order # <<>> =>
        /\ SubmittedOrderIsReducing
        /\ 10 * tick_order[1].stopPrice = ClaimedStop
        /\ 10 * tick_order[1].price = ClaimedLimit
\* C19 (amended): the same with both prices rounded to two decimals; for entry
\* 2000 on a long the stop is 2024.00 and the limit 2023.00.
C19_StopOrderRounded ==
    tick_order # <<>> =>
        /\ SubmittedOrderIsReducing
        /\ Nearest(tick_order[1].stopPrice, ClaimedStop)
        /\ Nearest(tick_order[1].price, ClaimedLimit)
        /\ (position_data.side = "Buy" /\ position_data.entry_price = 2000) =>
              (tick_order[1].stopPrice = 202400 /\ tick_order[1].price = 202300)
C19_Witness ==
    /\ tick_order # <<>>
    /\ position_data = [side |-> "Buy", entry_price |-> 2001, size |-> 2]
    /\ tick_order[1].stopPrice = 202501 /\ tick_order[1].price = 202401
    /\ tick_order[1].side = "SELL" /\ tick_order[1].quantity = 2

\* ------------------------------------------------------ the parser claims
\* the text of the last message before its first ':', blanks around it aside
TextBeforeColon ==
    LET text == strip(parsed_message)
        colon == find_colon(text)
    IN  IF colon = 0 THEN text ELSE strip(SubSeq(text, 1, colon - 1))
FromOtherStrategy == parse_path # None /\ TextBeforeColon # <<active_strategy_name>>

\* C20: on both paths a message whose text before the first ':' is not the
\* name of the enabled strategy gets None, and the detailed pattern is not
\* applied to it.
C20_OtherStrategyNotParsedInDetail ==
    FromOtherStrategy => (parse_result = <<>> /\ ~parse_detailed)
\* what does hold: such a message gets None on both paths, and StrategyParser
\* does not apply the detailed pattern to it
C20_OtherStrategyGetsNone ==
    FromOtherStrategy =>
        /\ parse_result = <<>>
        /\ parse_path = "StrategyParser" => ~parse_detailed
C20_DetailedOnWebhookPath ==
    /\ FromOtherStrategy
    /\ parse_path = "StrategyManager"
    /\ parse_detailed
    /\ active_strategy_name = SL_2_1
    /\ strip(parsed_message)[1] = SL_78_46

\* ------------------------------------------- the claims of the whole request path
\* the text of `message` before its first ':'
NameOf(message) ==
    LET colon == find_colon(message)
    IN  IF colon = 0 THEN message ELSE SubSeq(message, 1, colon - 1)
\* a message process_webhook_message is to reject before the filter: empty, of
\* another strategy, or without buy or sell at its end
ToBeRejected(message) ==
    \/ message = <<>>
    \/ NameOf(message) # <<active_strategy_name>>
    \/ message[Len(message)] \notin ActionWords
\* a step that is a whole process_webhook_message for a message it rejects
RejectingStep ==
    /\ nsignals' = nsignals + 1
    /\ ToBeRejected(parsed_message') \/ parse_result' = <<>>

\* C21: a message rejected before the filter returns None, leaves last_action
\* as it was, makes no exchange call and neither stops nor starts the monitor
\* or its stream.
C21_RejectedChangesNothing ==
    [][RejectingStep =>
         /\ result' = None
         /\ pc' = "idle"
         /\ last_action' = last_action
         /\ calls' = <<>>
         /\ UNCHANGED <<ExchangeVars, MonitorVars, ws_running, StreamVars,
                        ThreadVars>>]_vars
C21_Witness ==
    /\ parsed_message = <<SL_78_46>> \o BuyBody
    /\ strategy = "PivotReversalSLStrategy"
    /\ result = None
    /\ prev_result = "success"
    /\ last_action = "buy"
    /\ is_monitoring

\* the exchange calls that take the symbol
SymbolCalls == {"get_current_position", "close_position", "open_long_position",
                "open_short_position"}
\* C22: an accepted alert has a symbol of letters and digits with at most one
\* trailing suffix, and the symbol handed to get_current_position,
\* close_position and open_long_position / open_short_position carries no
\* suffix.
C22_SuffixStrippedBeforeExchange ==
    parse_result # <<>> =>
        /\ WellFormedSymbol(parse_result[1].symbol)
        /\ (\E i \in 1..Len(calls) : calls[i].op \in SymbolCalls) =>
              ~HasSuffix(HandedSymbol(parse_result))
\* the suffixed symbol reaches the exchange as it came
C22_SuffixHanded ==
    /\ parse_result # <<>>
    /\ \E i \in 1..Len(calls) : calls[i].op = "get_current_position"
    /\ HandedSymbol(parse_result) = "ETHUSDC.P"
\* the strategy with SL accepts no alert whose symbol has a suffix
C22_SLAcceptsNoSuffix ==
    (strategy = "PivotReversalSLStrategy" /\ parse_result # <<>>) =>
        ~HasSuffix(parse_result[1].symbol)

\* C23: every process_webhook_message ends with one determination and does
\* not raise: None exactly for a message that is not routed, else 'ignored',
\* 'success' or 'error'.
C23_OneDeterminationNeverRaises ==
    /\ result # "raised"
    /\ (pc = "idle" /\ nsignals > 0) =>
          /\ result \in {None, "ignored", "success", "error"}
          /\ (result = None) = (parse_result = <<>>)
\* the TypeError of is_connected leaves process_webhook_message
C23_RaisedInStatus ==
    /\ result = "raised"
    /\ pc = "idle"
    /\ is_monitoring /\ ~ws_running /\ ~last_update
\* apart from that exception the determinations are as stated
C23_DeterminationUnlessRaised ==
    (pc = "idle" /\ nsignals > 0 /\ result # "raised") =>
        /\ result \in {None, "ignored", "success", "error"}
        /\ (result = None) = (parse_result = <<>>)

\* ------------------------------------------------------ the retry claims
InvocationIdx == 1..Len(retry_invocations)
Raised(i) == "raised" \in DOMAIN retry_invocations[i]
RetryDone == retry_pc \in {"returned", "raised"}

\* C14: when every invocation of the wrapped function raised, the wrapper is
\* left by an exception after exactly max_retries invocations, and that
\* exception is the one the last invocation raised.
C14_AlwaysFailing ==
    (RetryDone /\ \A i \in InvocationIdx : Raised(i)) =>
        /\ retry_pc = "raised"
        /\ Len(retry_invocations) = retry_max
        /\ retry_outcome = retry_invocations[retry_max]
        /\ retry_outcome.raised.invocation = retry_max
C14_Witness ==
    /\ retry_pc = "raised" /\ retry_max = 3
    /\ retry_invocations[2].raised.kind = "ConnectionError"
    /\ retry_invocations[3].raised.kind = "KeyError"
    /\ retry_outcome.raised.kind = "KeyError"

\* C15: a first success at invocation k returns that result after exactly k
\* invocations and k-1 sleeps of delay; when all attempts fail there are
\* max_retries-1 sleeps; at most one invocation succeeds and it is the last.
C15_SuccessAtAttemptK ==
    /\ \A i \in InvocationIdx : ~Raised(i) => i = Len(retry_invocations)
    /\ Len(retry_invocations) <= retry_max
    /\ \A i \in 1..Len(retry_sleeps) : retry_sleeps[i] = retry_delay
    /\ retry_pc = "returned" =>
          LET k == Len(retry_invocations)
          IN /\ ~Raised(k)
             /\ retry_outcome = retry_invocations[k]
             /\ Len(retry_sleeps) = k - 1
    /\ retry_pc = "raised" => Len(retry_sleeps) = retry_max - 1
C15_Witness ==
    /\ retry_pc = "returned" /\ retry_max = 3
    /\ Len(retry_invocations) = 2
    /\ retry_sleeps = <<retry_delay>>
    /\ retry_outcome = [returned |-> "True"]


\* C24: while the stream is running every connection attempt after a lost
\* connection or a decode error comes after the reconnect delay, after more
\* than max_reconnect_attempts consecutive failures no further attempt is
\* made, and the attempts made without a stored price in between stay within
\* the first one and max_reconnect_attempts retries.
C24_DelayedBoundedReconnect ==
    /\ ~reconnected_undelayed
    /\ connects_since_tick <= max_reconnect_attempts + 1
    /\ (reconnect_attempts > max_reconnect_attempts => conn_pc = "ended")

\* the three parts of C24 taken one at a time
C24_NoReconnectWithoutDelay == ~reconnected_undelayed

C24_BoundedWithoutTick == connects_since_tick <= max_reconnect_attempts + 1

C24_GivesUpAfterMax ==
    /\ reconnect_attempts <= max_reconnect_attempts + 1
    /\ (reconnect_attempts > max_reconnect_attempts => conn_pc = "ended")
    /\ (conn_pc = "connect" /\ dropped /\ reconnect_attempts > 0
            => waited = reconnect_delay)

\* the loop gave up after max_reconnect_attempts + 1 failures in a row
C24_GaveUp ==
    /\ conn_pc = "ended"
    /\ ws_running
    /\ reconnect_attempts = max_reconnect_attempts + 1


\* the reader of the current stream gave up reconnecting
GaveUp(r) == rdr[r] = "closed" /\ ws_loop = r

\* C25: once the reader of the current stream has given up reconnecting, the
\* stream no longer counts as running and the monitor thread that started it
\* does not go on waiting as if the position were protected; no close_position
\* call results from the give-up.
C25_TerminalSurfaced ==
    \A r \in Threads :
        GaveUp(r) => /\ ~ws_running
                     /\ mon[r] # "loop"

\* the parts of C25 taken one at a time
C25_NotRunningAfterGiveUp == \A r \in Threads : GaveUp(r) => ~ws_running

C25_MonitorLeftLoop == \A r \in Threads : GaveUp(r) => mon[r] # "loop"

\* the give-up itself calls nothing on the exchange and leaves the position
C25_NoCloseFromGiveUp ==
    [][(\E r \in Threads : rdr[r] = "listen" /\ rdr'[r] = "closed")
            => UNCHANGED <<calls, ExchangeVars, MonitorVars, mon, ws_running>>]_vars


\* a step in which thread t returns from websocket_manager.start
StartReturns(t) == mon[t] = "ws_start" /\ mon'[t] # "ws_start"

\* a step that starts a reader thread
ReaderCreated == \E r \in Threads : rdr[r] = None /\ rdr'[r] # None

\* a step of BinanceWebSocketManager.stop: from process_signal's
\* stop_monitoring or from the `finally` of a monitor thread
StopStep ==
    \/ pc = "process_signal"
    \/ \E t \in Threads : mon[t] = "finally" /\ mon'[t] = "done"

MerelyUnhealthy(tick) ==
    /\ tick.unhealthy
    /\ tick.memory_mb <= max_memory_mb * 2
    /\ tick.uptime_seconds <= max_uptime_hours * 3600 + 1
    /\ tick.self_test_failures <= max_self_test_failures
    /\ tick.consecutive_failures <= max_consecutive_failures

\* C27: a health check that is merely unhealthy does not call the restart
\* callback.
C27_MerelyUnhealthyNoRestart ==
    health_tick # <<>> /\ MerelyUnhealthy(health_tick[1]) => ~health_tick[1].restart

\* C27 condition by condition: the check is unhealthy for one reason only
C27_MemoryAloneNoRestart ==
    (/\ health_tick # <<>>
     /\ health_tick[1].unhealthy
     /\ health_tick[1].memory_mb <= max_memory_mb * 2
     /\ health_tick[1].uptime_seconds <= max_uptime_hours * 3600
     /\ health_tick[1].self_test_failures < max_self_test_failures
     /\ health_tick[1].consecutive_failures < max_consecutive_failures)
        => ~health_tick[1].restart

C27_UptimeAloneNoRestart ==
    (/\ health_tick # <<>>
     /\ health_tick[1].memory_mb <= max_memory_mb
     /\ health_tick[1].uptime_seconds = max_uptime_hours * 3600 + 1
     /\ health_tick[1].self_test_failures < max_self_test_failures
     /\ health_tick[1].consecutive_failures < max_consecutive_failures)
        => ~health_tick[1].restart

C27_SelfTestAloneNoRestart ==
    (/\ health_tick # <<>>
     /\ health_tick[1].memory_mb <= max_memory_mb
     /\ health_tick[1].uptime_seconds <= max_uptime_hours * 3600
     /\ health_tick[1].self_test_failures = max_self_test_failures
     /\ health_tick[1].consecutive_failures < max_consecutive_failures)
        => ~health_tick[1].restart

C27_ConsecutiveAloneNoRestart ==
    (/\ health_tick # <<>>
     /\ health_tick[1].memory_mb <= max_memory_mb * 2
     /\ health_tick[1].uptime_seconds <= max_uptime_hours * 3600
     /\ health_tick[1].self_test_failures < max_self_test_failures
     /\ health_tick[1].consecutive_failures = max_consecutive_failures)
        => ~health_tick[1].restart

\* a restart is only requested by an unhealthy check
C27_RestartOnlyWhenUnhealthy ==
    health_tick # <<>> /\ health_tick[1].restart => health_tick[1].unhealthy


\* C28: for any number of request_restart calls, from one thread or from
\* several, at most one restart thread is started and os.execv is reached by
\* one thread at most.
C28_AtMostOneRestartThread ==
    /\ restart_threads <= 1
    /\ Cardinality({k \in RestartThreads : restart_thread[k] # None}) <= 1

\* every request that finds restart_requested set is ignored
C28_RequestWhileSetIgnored ==
    [][\A c \in RestartCallers :
          (requests_made' = requests_made + 1 /\ restart_requested)
              => /\ requests_ignored' = requests_ignored + 1
                 /\ UNCHANGED <<restart_requested, request_pc, restart_thread,
                                restart_threads>>]_vars


\* a restart request has been honoured: its RestartThread was started
Honoured == restart_threads > 0

\* C29: every honoured restart request is eventually followed by the process
\* image being replaced or, when os.execv fails, by the forced exit of the
\* process.
C29_HonouredRestartCompletes == Honoured ~> process \in {"reexecuted", "exited"}

\* C29, the safety side: the process only leaves its old image through
\* os.execv or os._exit of a restart thread, and no restart thread calls
\* os.execv a second time.
C29_ExecvNotRetried ==
    /\ execv_calls <= restart_threads
    /\ process = "reexecuted" => execv_calls >= 1
    /\ process = "exited" => \E k \in RestartThreads : restart_thread[k] = "exit"
    /\ \A k \in RestartThreads :
           restart_thread[k] \in {None, "sleep", "execv", "exit"}

\* os.execv failed and the process was forced to exit
C29_Witness ==
    /\ process = "exited"
    /\ restart_threads = 1
    /\ execv_calls = 1

\* os.execv replaced the process image
C29_WitnessReexecuted ==
    /\ process = "reexecuted"
    /\ restart_threads = 1
    /\ execv_calls = 1


\* C30: once stop_monitoring has cleared is_monitoring, every monitor thread
\* waiting in its loop eventually leaves it, and once stop() has cleared
\* _is_running every reader thread eventually ends, also when monitoring is
\* started again afterwards.
C30_LoopsTerminateAfterStop ==
    /\ \A t \in Threads :
           (mon[t] = "loop" /\ ~is_monitoring) ~> (mon[t] \in {"finally", "done"})
    /\ \A r \in Threads :
           (rdr[r] = "listen" /\ ~ws_running) ~> (rdr[r] \in {"done", "closed"})

\* the two parts of C30 taken one at a time
C30_MonitorLoopTerminates ==
    \A t \in Threads :
        (mon[t] = "loop" /\ ~is_monitoring) ~> (mon[t] \in {"finally", "done"})

C30_ReaderTerminates ==
    \A r \in Threads :
        (rdr[r] = "listen" /\ ~ws_running) ~> (rdr[r] \in {"done", "closed"})

\* without a later start the flag stays cleared and the loop ends
C30_TerminatesWhileFlagStaysCleared ==
    \A t \in Threads :
        (mon[t] = "loop" /\ [](~is_monitoring)) ~> (mon[t] \in {"finally", "done"})


\* the same for HealthMonitor: once stop_monitoring has cleared is_monitoring
\* every _monitoring_loop thread eventually ends
C30_HealthLoopTerminates ==
    \A t \in HealthThreads :
        (health_thread[t] \in {"test", "sleep"} /\ ~health_monitoring)
            ~> (health_thread[t] = "ended")


\* C31: while a monitoring session has made no stop submission of its own,
\* no stop order id is recorded (the id is None at the start of the session
\* and stays None until the session's own submission returns) and no stop
\* order of an earlier session rests on the exchange.
C31_NoStaleStopOrder ==
    (is_monitoring /\ session_submits = 0)
        => /\ stop_loss_order_id = 0
           /\ ex_orders = {}

\* the two parts of C31 taken one at a time
C31_NoStaleStopId ==
    (is_monitoring /\ session_submits = 0) => stop_loss_order_id = 0

C31_NoOrphanOrder ==
    (is_monitoring /\ session_submits = 0) => ex_orders = {}

\* the id recorded when a session starts is None unless a submission of the
\* earlier session returned after stop_monitoring's _reset_state
C31_StaleIdOnlyFromLateRecord ==
    [][(stop_loss_order_id = 0 /\ stop_loss_order_id' # 0)
          => \E r \in Threads : rdr[r] = "record" /\ rdr'[r] = "listen"
                                /\ stop_loss_order_id' = rdr_order[r]]_vars


\* thread t runs the websocket_manager.stop() of its `finally`
FinallyStop(t) == mon[t] = "finally" /\ mon'[t] = "done"

\* C32: the websocket_manager.stop() in the `finally` of a monitor thread only
\* stops a price stream that this thread started.
C32_FinallyStopsOwnStream ==
    [][\A t \in Threads : (FinallyStop(t) /\ ws_running) => ws_loop = t]_vars

\* C32, second half: an ending monitor thread never stops the stream that
\* serves the active monitoring session, started by the latest monitor thread
C32_ActiveStreamNotStopped ==
    [][\A t \in Threads :
          (FinallyStop(t) /\ ws_running /\ is_monitoring /\ ws_loop = nmon)
              => t = nmon]_vars

\* a thread that did start the running stream stops it in its `finally`
C32_OwnStreamStopped ==
    [][\A t \in Threads : (FinallyStop(t) /\ ws_loop = t) => ~ws_running']_vars


\* the stop price of the submitted order lies on the profit side of the entry
\* price (prices of the order are in hundredths)
StopLocksInProfit ==
    IF position_data.side = "Buy"
    THEN tick_order[1].stopPrice > position_data.entry_price * 100
    ELSE tick_order[1].stopPrice < position_data.entry_price * 100

\* the price update that triggered the submission has not passed the stop price
StopNotBreached ==
    IF position_data.side = "Buy"
    THEN tick_order[1].stopPrice <= tick_price * 100
    ELSE tick_order[1].stopPrice >= tick_price * 100

\* C33: when the monitor submits a stop, the stop price is on the profit side
\* of the entry price and is not beyond the price that triggered the
\* submission.
C33_StopProfitableAndNotBreached ==
    tick_order # <<>> => StopLocksInProfit /\ StopNotBreached

\* the two parts of C33 taken one at a time
C33_StopOnProfitSide == tick_order # <<>> => StopLocksInProfit

C33_StopNotBeyondTick == tick_order # <<>> => StopNotBreached


\* the calls of the last process_signal: close_position returned True, and
\* no open call returned True after it
ClosedInLastSignal ==
    \E i \in 1..Len(calls) : calls[i].op = "close_position" /\ calls[i].res = "true"

OpenedInLastSignal ==
    \E i \in 1..Len(calls) :
        /\ calls[i].op \in {"open_long_position", "open_short_position"}
        /\ calls[i].res = "true"

FailedReversal == pc = "idle" /\ ClosedInLastSignal /\ ~OpenedInLastSignal

\* once process_signal has returned after a close without an open, the
\* result is 'error' and the account is flat
FlatAfterFailedReversal ==
    FailedReversal => result = "error" /\ ex_position = None

\* C34: when close_position succeeded and the open that follows fails,
\* process_signal returns False with the account flat, and no step outside a
\* later process_signal changes the position.
C34_ReversalNotAtomic ==
    [][/\ FlatAfterFailedReversal'
       /\ (pc = "idle" /\ pc' = "idle" => UNCHANGED ex_position)]_vars

\* a reversal whose open call returned False: the account is flat
C34_Witness ==
    /\ FailedReversal
    /\ ex_position = None
    /\ result = "error"
    /\ \E i \in 1..Len(calls) :
          /\ calls[i].op \in {"open_long_position", "open_short_position"}
          /\ calls[i].res = "false"

\* the other ways the open fails after the close
C34_WitnessInsufficientBalance ==
    /\ FailedReversal
    /\ ex_position = None
    /\ calls[Len(calls)].op = "get_account_balance"
    /\ calls[Len(calls)].res = "ok"

C34_WitnessOpenRaises ==
    /\ FailedReversal
    /\ ex_position = None
    /\ calls[Len(calls)].res = "raise"
    /\ calls[Len(calls)].op \in {"open_long_position", "open_short_position"}


\* the monitor thread of the latest start_monitoring has not ended
SessionThreadAlive == nmon > 0 /\ mon[nmon] # "done"

\* C35: whenever is_monitoring is true, the monitor thread of that session is
\* alive; the flag is cleared when the thread ends after a failed fetch or a
\* failed start of the stream.
C35_MonitoringImpliesThread == is_monitoring => SessionThreadAlive

\* the stronger reading: the thread is not even on its way out
C35_MonitoringImpliesThreadWaiting ==
    is_monitoring => nmon > 0 /\ mon[nmon] \in {"fetch", "ws_start", "loop"}

\* no step of a monitor thread clears the flag
C35_ThreadNeverClearsFlag ==
    [][(is_monitoring /\ ~is_monitoring') => pc = "process_signal"]_vars


\* every remote invocation of query q raised, and nothing else did
OnlyFailing(q) ==
    /\ remote_calls[q] > 0
    /\ remote_raises[q] = remote_calls[q]
    /\ \A other \in Queries \ {q} : remote_raises[other] = 0
    /\ order_raises = 0

\* C36: when one wrapped query of close_position or _open_position always
\* raises, the error reaches the strategy after max_retries * max_retries (9)
\* remote invocations of that query and 8 sleeps.
C36_NestedRetriesMultiply ==
    \A q \in Queries :
        OnlyFailing(q) /\ nested_pc \in {"raised", "returned"}
            => /\ nested_pc = "raised"
               /\ remote_calls[q] = default_max_retries * default_max_retries
               /\ remote_calls[q] = 9
               /\ nested_sleeps = 8

\* close_position with get_current_position always raising has ended
C36_Witness ==
    /\ nested_op = "close_position"
    /\ nested_pc = "raised"
    /\ OnlyFailing("get_current_position")
    /\ remote_calls["get_current_position"] = 9
    /\ nested_sleeps = 8

\* _open_position with get_account_balance always raising has ended
C36_WitnessOpen ==
    /\ nested_op = "_open_position"
    /\ nested_pc = "raised"
    /\ OnlyFailing("get_account_balance")
    /\ remote_calls["get_account_balance"] = 9
    /\ remote_calls["get_current_price"] = 3
    /\ nested_sleeps = 8


\* a step of _perform_health_check
HealthCheckStep == health_check_count' = health_check_count + 1

\* the counter had reached max_consecutive_failures before the step
FailuresLatched == consecutive_failures >= max_consecutive_failures

\* C37: once consecutive_failures has reached max_consecutive_failures, every
\* health check counts one more failure (the status it obtains is
\* 'unhealthy', whatever the readings), and only record_request, never a
\* health check, lowers the counter.
C37_FailureLatch ==
    [][FailuresLatched =>
        /\ HealthCheckStep =>
              /\ consecutive_failures' = consecutive_failures + 1
              /\ health_tick'[1].unhealthy \/ health_tick'[1].raised
        /\ consecutive_failures' < consecutive_failures =>
              /\ ~HealthCheckStep
              /\ consecutive_failures' = 0
              /\ UNCHANGED <<health_tick, self_test_failures, health_monitoring>>]_vars

\* C37: below the limit a health check that finds no problem does reset the
\* counter, so the latch starts exactly at max_consecutive_failures.
C37_HealthyCheckResetsBelowLimit ==
    [][(HealthCheckStep /\ ~FailuresLatched
            /\ ~health_tick'[1].unhealthy /\ ~health_tick'[1].raised)
        => consecutive_failures' = 0]_vars

\* a check with every reading fine was counted as the fourth failure
C37_Witness ==
    /\ health_tick # <<>>
    /\ health_tick[1].memory_mb = 400
    /\ health_tick[1].uptime_seconds = 3600
    /\ health_tick[1].self_test_failures = 0
    /\ health_tick[1].unhealthy
    /\ health_tick[1].consecutive_failures = max_consecutive_failures + 1

\* record_request has reset a counter that had reached the limit
C37_WitnessReset ==
    /\ health_tick # <<>>
    /\ health_tick[1].consecutive_failures >= max_consecutive_failures
    /\ consecutive_failures = 0


\* reload_config constructs the new strategy in this step
ReloadConstructs == pc = "reload_construct" /\ pc' = "idle"

\* C38: when the new strategy is constructed, the stream of a monitor that
\* was running is stopped.
C38_StreamStoppedBeforeConstruct ==
    [][(ReloadConstructs /\ reload_monitoring) => ~ws_running]_vars

\* C38: when the new strategy is constructed, the stop order the monitor had
\* recorded no longer rests on the exchange.
C38_StopOrderCancelledBeforeConstruct ==
    [][(ReloadConstructs /\ reload_monitoring /\ reload_stop_id # 0)
        => reload_stop_id \notin ex_orders]_vars

\* C38: the new strategy has an empty filter and no monitor.
C38_NewStrategyFresh ==
    [][ReloadConstructs =>
        /\ last_action' = None
        /\ ~is_monitoring'
        /\ stop_loss_order_id' = 0
        /\ ~ws_running'
        /\ \A t \in Threads : mon'[t] \in {None, "replaced"}]_vars

\* C38: the first signal after a reload is accepted whatever came before.
C38_FirstSignalAccepted ==
    [][(reload_at = nsignals /\ nsignals' = nsignals + 1)
        => (pc' = "process_signal" /\ result' = "pending")]_vars

\* C38: after a reload nothing monitors until the next signal is accepted.
C38_UnmonitoredUntilAccepted ==
    [][(reload_at' = nsignals' /\ pc' \in {"idle", "process_signal"})
        => (~is_monitoring' /\ \A t \in Threads : mon'[t] \in {None, "replaced"})]_vars

\* C38: reload_config stops the running monitor (stream stopped, recorded stop
\* order cancelled) before the new strategy is constructed; the new strategy
\* has an empty filter and no monitor, so the first signal after the reload
\* is accepted and nothing monitors until then.
C38_ReloadStopsMonitorFirst ==
    [][/\ (ReloadConstructs /\ reload_monitoring) =>
              /\ ~ws_running
              /\ reload_stop_id # 0 => reload_stop_id \notin ex_orders
       /\ ReloadConstructs =>
              /\ last_action' = None
              /\ ~is_monitoring'
       /\ (reload_at = nsignals /\ nsignals' = nsignals + 1)
              => pc' = "process_signal"
       /\ (reload_at' = nsignals' /\ pc' \in {"idle", "process_signal"})
              => ~is_monitoring']_vars

\* a reload has replaced a monitoring strategy and its recorded stop order
\* still rests on the exchange
C38_OrderLeftBehind ==
    /\ reload_result = "success"
    /\ reload_monitoring
    /\ reload_stop_id # 0
    /\ reload_stop_id \in ex_orders

\* the same signal twice with a reload between: the second one is processed
C38_RepeatedSignalAccepted ==
    /\ reload_result = "success"
    /\ reload_at = 1
    /\ nsignals = 2
    /\ last_action = signal
    /\ pc = "process_signal"
    /\ ex_position # None


\* the symbol without its last two characters
WithoutSuffix(sym) == SubSeq(sym, 1, Len(sym) - 2)

\* C39: normalize_symbol removes exactly the two characters '.P' from a symbol
\* that ends with '.P', returns any other symbol unchanged, and is idempotent.
C39_ExactSuffixAndIdempotent ==
    norm_pc = "done" =>
        /\ norm_result = IF endswith(norm_symbol, PerpSuffix)
                         THEN WithoutSuffix(norm_symbol) ELSE norm_symbol
        /\ norm_twice = norm_result

\* C39: a symbol that ends with '.P' loses exactly these two characters.
C39_ExactlySuffixRemoved ==
    (norm_pc = "done" /\ endswith(norm_symbol, PerpSuffix))
        => norm_result = WithoutSuffix(norm_symbol)

\* C39: a symbol that does not end with '.P' is returned unchanged.
C39_UnchangedWithoutSuffix ==
    (norm_pc = "done" /\ ~endswith(norm_symbol, PerpSuffix))
        => norm_result = norm_symbol

\* C39: normalize_symbol(normalize_symbol(s)) = normalize_symbol(s)
C39_Idempotent == norm_pc = "done" => norm_twice = norm_result

\* C39: exactly the suffix is removed when what precedes it ends with
\* neither '.' nor 'P'.
C39_ExactWhenStemEndsElsewhere ==
    (/\ norm_pc = "done"
     /\ endswith(norm_symbol, PerpSuffix)
     /\ Len(norm_symbol) > 2
     /\ norm_symbol[Len(norm_symbol) - 2] \notin {".", "P"})
        => norm_result = WithoutSuffix(norm_symbol)

\* 'TP.P' (as in a symbol quoted in USDP) came back as 'T'
C39_MoreThanSuffixRemoved ==
    /\ norm_pc = "done"
    /\ norm_symbol = <<"T", "P", ".", "P">>
    /\ norm_result = <<"T">>

====
